---- MODULE Spec2Model ----
(***************************************************************************)
(* The DCA ladder bot: DCABot (tick, execBuy, execSellAll, init), its      *)
(* StateStore (dca_state.json) and the bootstrap timer.                    *)
(*                                                                         *)
(* JavaScript runs one callback at a time, so a tick is a chain of atomic  *)
(* segments, each running from the completion of one awaited collaborator  *)
(* call to the start of the next one.  A tick's pc names the collaborator  *)
(* call it is waiting for; one action per (pc, outcome of that call).      *)
(* Consecutive awaits with no access to the ledger between them are one    *)
(* pc whose outcomes are the union of theirs.  notify.send never rejects   *)
(* and touches no bot state, so its await is folded into the segment       *)
(* around it, except the one between the thresholds and the branch of tick *)
(* (pc "preview").                                                         *)
(*                                                                         *)
(* The bootstrap builds a BollingerBands and passes it to DCABot as a      *)
(* seventh argument; the constructor takes six and tick never calls the    *)
(* indicator, so no action writes the window (variable bollinger).         *)
(*                                                                         *)
(* Units: native amounts are in kilo-lamports (LAMPORTS_PER_SOL = 10^6),   *)
(* prices in cents; the floating point of the source is exact rational     *)
(* arithmetic here, every comparison cross-multiplied.                     *)
(***************************************************************************)
EXTENDS Integers, Sequences, FiniteSets, Bags, TLC

\* ----------------------------------------------------------------- bounds
MaxInFlight == 2
MaxTicks == 3
MaxQuarantined == 1
MaxRungs == 4
\* the largest raw balance the underflow guard taken alone is run on
MaxOnChainRaw == 12
\* the indicator taken alone: its longest period, the number of prices fed
\* to it, and the significant bits a number keeps (53 in the program)
MaxPeriod == 3
\* the manual-sale check taken alone: the last instant of the clock, in
\* half seconds
MaxClock == 10
MaxObservations == 4
MantissaBits == 4

\* ------------------------------------------------------- program constants
LAMPORTS_PER_SOL == 1000000
TipPctDivisor == 100
TipThresholdCents == 1
UnderflowNum == 9
\* confirm: the deadline and the pause between polls, in seconds
ConfirmDeadline == 90
PollInterval == 2
UnderflowDen == 10

\* --------------------------------------------------- configuration (.env)
initialBuyLamports == 100001
\* DCA_VOL_MULT = 1.5, as a fraction
dcaVolMultNum == 3
dcaVolMultDen == 2
buyDropPct == 10
dcaPctMult == 1
sellProfitPerMille == 25
\* BOLLINGER_PERIOD = 2, BOLLINGER_STDDEV = 0.5 as a fraction
bollingerPeriod == 2
bollingerStdDevNum == 1
bollingerStdDevDen == 2

\* ------------------------------------------------------------ input sets
\* mint addresses, as strings of characters
Tokens == {<<"A">>, <<"B", "n">>}
Prices == {90, 98, 110}
TokenOuts == {10, 30}
OnChainVals == {0, 100}
SellOutPcts == {103, 106}
\* quote.priceImpactPct, in thousandths
PriceImpacts == {0, 30}
SolUsds == {100, 200}
MaxBuysChoices == {0, 2}

VARIABLES
  cfg,               \* BotConfig: toTokenMint, proVersion, maxBuys, bollingerNoBuy
  state,             \* StateStore in memory: tokenMint, buys, sells, pendingTipLamports
  disk,              \* dca_state.json: the snapshot last written by save()
  pausedForNoFunds,  \* DCABot.pausedForNoFunds
  ticks,             \* the tick() invocations in flight: a bag of tick records
  timer,             \* "first": the awaited first tick; "interval": setInterval armed
  chain,             \* tip transfers: paid (settled), unsettled (sent, outcome unknown)
  hist,              \* history: tips accrued, tick() calls made, any two overlapped
  ev,                \* history: what the last step did
  bollinger,         \* BollingerBands.prices: the window of observed prices
  corrupt,           \* the files load() has renamed to dca_state.json.corrupt_<time>
  notify             \* NotificationService: its configuration, the send() in
                     \* progress and the deliveries attempted so far

vars ==
  <<cfg, state, disk, pausedForNoFunds, ticks, timer, chain, hist, ev, bollinger,
    corrupt, notify>>

\* ------------------------------------------------------------ StateStore
\* StateStore field initialisers
EmptyState(mint) ==
  [tokenMint |-> mint, buys |-> <<>>, sells |-> <<>>, pendingTipLamports |-> 0]

\* JSON.stringify replacer: a bigint v is written as the string `${v}n`
BigStr(v) == [digits |-> v, suffix |-> "n"]

\* StateStore.save(): the whole in-memory state replaces the file, a
\* sequence holding the one JSON object (the empty sequence: no file)
save(s) ==
  <<[tokenMint |-> s.tokenMint,
     buys |-> [i \in DOMAIN s.buys |->
                 [s.buys[i] EXCEPT !.tokensRaw = BigStr(@)]],
     sells |-> s.sells,
     pendingTipLamports |-> BigStr(s.pendingTipLamports)]>>

\* v.endsWith("n") of the JSON.parse reviver, on a string of characters
EndsWithN(str) == Len(str) > 0 /\ str[Len(str)] = "n"

\* BigInt(text) takes decimal digits only and throws on anything else
IsDigits(str) ==
  \A i \in DOMAIN str : str[i] \in {"0", "1", "2", "3", "4", "5", "6", "7", "8", "9"}

\* the reviver throws on a string that ends in "n" and is no bigint
ReviverThrows(obj) ==
  EndsWithN(obj.tokenMint) /\ ~IsDigits(SubSeq(obj.tokenMint, 1, Len(obj.tokenMint) - 1))

\* BigInt(obj.pendingTipLamports ?? 0) throws on a value the reviver left as
\* it was and that is no integer (a string such as "12x", a fraction)
TipThrows(obj) == obj.pendingTipLamports.suffix # "n"

\* load() reaches its catch block and renames the file
LoadThrows(file) ==
  file # <<>> /\ (ReviverThrows(file[1]) \/ TipThrows(file[1]))

\* StateStore.load(): no file leaves the field initialisers, and so does a
\* file whose parse throws; otherwise every string ending in "n" comes back
\* as the bigint of the text before it, tokenMint, buys and sells are
\* assigned, and then the tip is converted: when that throws the three
\* assignments before it stay
load(file) ==
  IF file = <<>> \/ ReviverThrows(file[1])
  THEN EmptyState(<<>>)
  ELSE LET obj == file[1]
       IN [tokenMint |-> IF EndsWithN(obj.tokenMint)
                         THEN SubSeq(obj.tokenMint, 1, Len(obj.tokenMint) - 1)
                         ELSE obj.tokenMint,
           buys |-> [i \in DOMAIN obj.buys |->
                       [obj.buys[i] EXCEPT !.tokensRaw = @.digits]],
           sells |-> obj.sells,
           pendingTipLamports |-> IF TipThrows(obj) THEN 0
                                  ELSE obj.pendingTipLamports.digits]

\* what load() leaves of the file: a file that made it throw is renamed
Quarantine(file, renamed) ==
  IF LoadThrows(file) THEN renamed \cup {file} ELSE renamed

\* the ledger part of a state (everything but the tracked mint)
Ledger(s) == <<s.buys, s.sells, s.pendingTipLamports>>

\* ------------------------------------------------------- DCABot helpers
RECURSIVE Pow(_, _)
Pow(b, e) == IF e = 0 THEN 1 ELSE b * Pow(b, e - 1)

\* a size that grows one step early
nextSizeEarly(initial, num, den, buyIndex) ==
  (initial * Pow(num, buyIndex + 1)) \div Pow(den, buyIndex + 1)

\* Math.floor(initial * Math.pow(num / den, buyIndex))
nextSizeOf(initial, num, den, buyIndex) ==
  (initial * Pow(num, buyIndex)) \div Pow(den, buyIndex)

\* DCABot.nextSize: Math.floor(initialBuyLamports * Math.pow(dcaVolMult, buyIndex))
nextSize(buyIndex) ==
  nextSizeOf(initialBuyLamports, dcaVolMultNum, dcaVolMultDen, buyIndex)

\* DCABot.nextDropPct
nextDropPct(buyIndex) == buyDropPct * Pow(dcaPctMult, buyIndex)

RECURSIVE SumTokens(_)
SumTokens(buys) ==
  IF buys = <<>> THEN 0 ELSE Head(buys).tokensRaw + SumTokens(Tail(buys))

RECURSIVE SumLamports(_)
SumLamports(buys) ==
  IF buys = <<>> THEN 0 ELSE Head(buys).lamports + SumLamports(Tail(buys))

\* a cost in which every entry counts at the first entry's price
SumCostFirstPrice(buys) ==
  IF buys = <<>> THEN 0 ELSE buys[1].price * SumTokens(buys)

\* numerator of avgPrice(): sum of price * tokensRaw
RECURSIVE SumCost(_)
SumCost(buys) ==
  IF buys = <<>> THEN 0
  ELSE Head(buys).price * Head(buys).tokensRaw + SumCost(Tail(buys))

\* DCABot.nextDropPct for a given BUY_DROP_PCT and a multiplier num/den, as
\* the fraction num/den of a percent
nextDropPctOf(drop, mult, buyIndex) ==
  [num |-> drop * Pow(mult.num, buyIndex), den |-> Pow(mult.den, buyIndex)]

\* a buy condition that asks for no drop
BuyHitAtLast(price, buys, dropNeeded) ==
  price <= buys[Len(buys)].price

\* tick: price <= lastBuyPrice * (1 - dropNeeded / 100), dropNeeded a
\* fraction num/den
BuyHitAt(price, buys, dropNeeded) ==
  price * 100 * dropNeeded.den
    <= buys[Len(buys)].price * (100 * dropNeeded.den - dropNeeded.num)

\* tick: price <= lastBuyPrice * (1 - nextDropPct(idx) / 100)
BuyHit(price, buys) ==
  BuyHitAt(price, buys, [num |-> nextDropPct(Len(buys)), den |-> 1])

\* a sell condition that leaves the profit target out
SellHitAtCost(price, buys, profit) ==
  IF SumTokens(buys) = 0 THEN price >= 0
  ELSE price * SumTokens(buys) >= SumCost(buys)

\* price >= avgPrice() * (1 + profit/1000); avgPrice() is 0 on a ladder
\* that holds no tokens
SellHitAt(price, buys, profit) ==
  IF SumTokens(buys) = 0 THEN price >= 0
  ELSE price * SumTokens(buys) * 1000 >= SumCost(buys) * (1000 + profit)

SellHit(price, buys) == SellHitAt(price, buys, sellProfitPerMille)

\* tick: nextLamports, 0 standing for null
NextLamports(buys) ==
  IF cfg.maxBuys = 0 \/ Len(buys) < cfg.maxBuys THEN nextSize(Len(buys)) ELSE 0

\* detectUnderflowAndReset: onChainRaw < expectedRaw * 9n / 10n (bigint division)
Underflow(onChainRaw, buys) ==
  onChainRaw < (SumTokens(buys) * UnderflowNum) \div UnderflowDen

\* execBuy: this.state.buys.push({price, lamports, tokensRaw})
PushBuy(buys, rec) == Append(buys, rec)

\* execSellAll: this.state.buys = []
ClearBuys(buys) == <<>>

\* execSellAll: worstCaseUsd < neededUsd, with otherAmountThreshold = out less 1 %
\* slippage; neededUsd = costUsd * (1 + sellProfitPct/100 + priceImpactPct/100)
SellSkipped(outAmount, costLamports, impact) ==
  ((outAmount * 99) \div 100) * 1000
    < costLamports * (1000 + sellProfitPerMille + impact)

\* execSellAll: tipLamports = floor(diffUsd * 0.01 / solUsd * 1e9)
TipLamports(diffLamports) == diffLamports \div TipPctDivisor

\* execSellAll: this.state.pendingTipLamports += tipLamports
AccrueTipSub(pending, tipLamports) == pending - tipLamports
AccrueTip(pending, tipLamports) == pending + tipLamports

\* execSellAll: pendingTipUsd >= 0.01
TipDue(pending, solUsd) ==
  pending * solUsd * 100 >= TipThresholdCents * LAMPORTS_PER_SOL

\* --------------------------------------------------------- BollingerBands
\* BollingerBands.addPrice: push, then shift once the window exceeds the period
\* a window that evicts as soon as it is full
addPriceOfFull(prices, price, period) ==
  LET pushed == Append(prices, price)
  IN IF Len(pushed) >= period THEN Tail(pushed) ELSE pushed

addPriceOf(prices, price, period) ==
  LET pushed == Append(prices, price)
  IN IF Len(pushed) > period THEN Tail(pushed) ELSE pushed

addPrice(prices, price) == addPriceOf(prices, price, bollingerPeriod)

\* BollingerBands.mean is null until the window holds `period` prices
BandAvailable(prices) == Len(prices) >= bollingerPeriod

RECURSIVE SumPrices(_)
SumPrices(prices) ==
  IF prices = <<>> THEN 0 ELSE Head(prices) + SumPrices(Tail(prices))

RECURSIVE SumSquares(_)
SumSquares(prices) ==
  IF prices = <<>> THEN 0
  ELSE Head(prices) * Head(prices) + SumSquares(Tail(prices))

\* price > upperBand, upperBand = mean + stdDevMultiplier * stdDev with the
\* population variance; with n prices of sum s and sum of squares q this is
\* n * price - s > 0 and (n * price - s)^2 > multiplier^2 * (n * q - s^2)
AboveUpperBand(price, prices) ==
  LET n == Len(prices)
      s == SumPrices(prices)
      q == SumSquares(prices)
      d == n * price - s
  IN /\ d > 0
     /\ d * d * bollingerStdDevDen * bollingerStdDevDen
          > bollingerStdDevNum * bollingerStdDevNum * (n * q - s * s)

\* ---------------------------------------------------- NotificationService
Channels == {"console", "discord", "telegram"}
Kinds == {"TICK", "BUY", "SELL"}

\* CONSOLE_EVENTS / DISCORD_EVENTS / TELEGRAM_EVENTS, already split at commas
\* and blanks; the empty sequence is an unset or empty variable
EventLists == {<<>>, <<"buy", "SELL">>, <<"all">>, <<"All">>, <<"TICK">>}

\* a setting that may be missing: <<>> when it is, <<v>> when it is v
Optional(S) == {<<>>} \cup {<<v>> : v \in S}

\* v ?? d
OrElse(v, d) == IF v = <<>> THEN d ELSE v[1]

\* x.toUpperCase()
ToUpperCase(word) ==
  CASE word = "buy" -> "BUY"
    [] word \in {"all", "All"} -> "ALL"
    [] OTHER -> word

\* the constructor's parse: the set of the upper-cased words
parse(list) == {ToUpperCase(list[i]) : i \in DOMAIN list}

\* this.filters; an empty console filter is treated as ALL
\* filters in which an external channel left empty is open as the console is
filtersOpen(c) ==
  LET open(v) == IF parse(OrElse(v, <<>>)) = {} THEN {"ALL"} ELSE parse(OrElse(v, <<>>))
  IN [console |-> open(c.consoleEvents),
      discord |-> open(c.discordEvents),
      telegram |-> open(c.telegramEvents)]

filters(c) ==
  LET console == parse(OrElse(c.consoleEvents, <<"ALL">>))
  IN [console |-> IF console = {} THEN {"ALL"} ELSE console,
      discord |-> parse(OrElse(c.discordEvents, <<>>)),
      telegram |-> parse(OrElse(c.telegramEvents, <<>>))]

\* a filter that lets everything through once it names any kind
shouldSendAny(c, channel, kind) == filters(c)[channel] # {}

\* shouldSend(channel, kind)
shouldSend(c, channel, kind) ==
  "ALL" \in filters(c)[channel] \/ kind \in filters(c)[channel]

\* the endpoint tests of send(): the console has none to configure
Configured(c, channel) ==
  CASE channel = "console" -> TRUE
    [] channel = "discord" -> c.discordWebhook
    [] channel = "telegram" -> c.telegramBot /\ c.telegramChat

\* the channels send(kind) writes to or pushes a fetch for
Attempted(c, kind) ==
  {ch \in Channels : Configured(c, ch) /\ shouldSend(c, ch, kind)}

NoCall == [active |-> FALSE, kind |-> "", tasks |-> {}, attempted |-> {}, failed |-> {}]

\* the service as the bot's model sees it: no send() is followed inside
NotifyOff ==
  [cfg |-> [consoleEvents |-> <<<<"ALL">>>>, discordEvents |-> <<>>,
            telegramEvents |-> <<>>, discordWebhook |-> FALSE,
            telegramBot |-> FALSE, telegramChat |-> FALSE],
   call |-> NoCall, deliveries |-> {}]

\* ------------------------------------------------------------- tick records
IdleTick ==
  [pc |-> "idle", price |-> 0, lamports |-> 0, buyHit |-> FALSE, sellHit |-> FALSE,
   totalRaw |-> 0, diff |-> 0, solUsd |-> 0, sent |-> 0, pausedAtStart |-> FALSE]

\* tick starts with the manual-sale check in verbose mode, else with the
\* underflow check
StartPc == IF cfg.proVersion THEN "manual" ELSE "onchain"

\* the number of tick() invocations that have not returned
InFlight == BagCardinality(ticks)

\* a tick() invocation that has just been called
NewTick(paused) == [IdleTick EXCEPT !.pc = StartPc, !.pausedAtStart = paused]

\* the tick r moves on to wait for the next collaborator call
Goto(r, rec) ==
  /\ ticks' = (ticks (-) SetToBag({r})) (+) SetToBag({rec})
  /\ UNCHANGED timer

\* the tick r returns or leaves through its catch block; the first
\* tick returning lets the bootstrap reach setInterval
End(r) ==
  /\ ticks' = ticks (-) SetToBag({r})
  /\ timer' = "interval"

Did(name) == ev' = name

\* ------------------------------------------------------------------- Init
\* DCABot.init(): a token switch resets the ledger; the configured mint is
\* adopted
TokenSwitch(loaded, tok) == loaded.tokenMint # <<>> /\ loaded.tokenMint # tok

\* the mint is adopted with no reset
InitStateKeep(loaded, tok) == [loaded EXCEPT !.tokenMint = tok]

InitState(loaded, tok) ==
  IF TokenSwitch(loaded, tok)
  THEN EmptyState(tok)
  ELSE [loaded EXCEPT !.tokenMint = tok]

\* dca_state.json as the constructor finds it: absent (a first run), or left
\* by an earlier run of the same mint in which two ticks overlapped on the
\* empty ladder and both made a first buy, at 90 and then at 110
StoredFiles ==
  {<<>>,
   save([EmptyState(<<"A">>) EXCEPT !.buys = <<[price |-> 90,
                                               lamports |-> initialBuyLamports,
                                               tokensRaw |-> 30],
                                              [price |-> 110,
                                               lamports |-> initialBuyLamports,
                                               tokensRaw |-> 10]>>])}

\* The constructor loads the file, init() adopts the configured mint and
\* saves, and the bootstrap calls the first tick().
Init ==
  /\ cfg \in [toTokenMint : {<<"A">>}, proVersion : BOOLEAN,
              maxBuys : MaxBuysChoices, bollingerNoBuy : {TRUE}]
  /\ \E file \in StoredFiles : state = InitState(load(file), cfg.toTokenMint)
  /\ disk = save(state)
  /\ pausedForNoFunds = FALSE
  /\ ticks = SetToBag({NewTick(FALSE)})
  /\ timer = "first"
  /\ chain = [paid |-> 0, unsettled |-> <<>>]
  /\ hist = [accrued |-> 0, nticks |-> 1, overlapped |-> FALSE,
             fromEmpty |-> state.buys = <<>>]
  /\ bollinger = <<>>
  /\ corrupt = {}
  /\ notify = NotifyOff
  /\ ev = "boot"

\* ------------------------------------------------------------- bootstrap
\* setInterval(() => bot.tick(), cfg.tickIntervalMs): the callback calls
\* tick() whatever the earlier calls are doing
TimerFire ==
  /\ timer = "interval"
  /\ hist.nticks < MaxTicks
  /\ InFlight < MaxInFlight
  /\ ticks' = ticks (+) SetToBag({NewTick(pausedForNoFunds)})
  /\ Did("tick")
  /\ hist' = [hist EXCEPT !.nticks = @ + 1,
                          !.overlapped = @ \/ InFlight > 0]
  /\ UNCHANGED <<cfg, bollinger, corrupt, notify, state, disk, pausedForNoFunds, timer, chain>>

\* The process dies at any point and is started again with mint tok: the
\* constructor loads dca_state.json, init() resets the ledger on a token
\* switch, adopts the mint and saves; the bootstrap calls the first tick().
Restart(tok) ==
  /\ hist.nticks < MaxTicks
  /\ cfg' = [cfg EXCEPT !.toTokenMint = tok]
  /\ state' = InitState(load(disk), tok)
  /\ disk' = save(state')
  /\ pausedForNoFunds' = FALSE
  /\ ticks' = SetToBag({NewTick(FALSE)})
  /\ timer' = "first"
  /\ hist' = [hist EXCEPT !.nticks = @ + 1]
  /\ Did(IF TokenSwitch(load(disk), tok) THEN "token_switch" ELSE "restart")
  /\ bollinger' = <<>>
  /\ corrupt' = Quarantine(disk, corrupt)
  /\ UNCHANGED <<chain, notify>>

\* ------------------------------------------------------------------ tick
\* a collaborator call rejects with an error that tick's catch block logs:
\* nothing is saved and lastTickTime is not advanced
CaughtSaving(r, name) ==
  /\ End(r)
  /\ Did(name)
  /\ disk' = save(state)
  /\ UNCHANGED <<cfg, bollinger, corrupt, notify, state, pausedForNoFunds, chain, hist>>

Caught(r, name) ==
  /\ End(r)
  /\ Did(name)
  /\ UNCHANGED <<cfg, bollinger, corrupt, notify, state, disk, pausedForNoFunds, chain, hist>>

\* verbose mode only: await recentManualSalesDetected()
ManualThrows ==
  \E r \in BagToSet(ticks) :
  /\ r.pc = "manual"
  /\ Caught(r, "manual_throw")

ManualNone ==
  \E r \in BagToSet(ticks) :
  /\ r.pc = "manual"
  /\ Goto(r, [r EXCEPT !.pc = "onchain"])
  /\ Did("manual_none")
  /\ UNCHANGED <<cfg, bollinger, corrupt, notify, state, disk, pausedForNoFunds, chain, hist>>

\* a manual-sale reset that empties the whole ledger
ManualResetLedger ==
  \E r \in BagToSet(ticks) :
  /\ r.pc = "manual"
  /\ state' = EmptyState(state.tokenMint)
  /\ disk' = save(state')
  /\ Goto(r, [r EXCEPT !.pc = "onchain"])
  /\ Did("manual_reset")
  /\ UNCHANGED <<cfg, bollinger, corrupt, notify, pausedForNoFunds, chain, hist>>

\* recentManualSalesDetected() returned true: this.state.buys = [];
\* this.state.save()
ManualReset ==
  \E r \in BagToSet(ticks) :
  /\ r.pc = "manual"
  /\ state' = [state EXCEPT !.buys = ClearBuys(@)]
  /\ disk' = save(state')
  /\ Goto(r, [r EXCEPT !.pc = "onchain"])
  /\ Did("manual_reset")
  /\ UNCHANGED <<cfg, bollinger, corrupt, notify, pausedForNoFunds, chain, hist>>

\* await detectUnderflowAndReset(): fetchOnChainRaw rethrows anything but
\* "could not find account", which counts as 0
OnChainThrows ==
  \E r \in BagToSet(ticks) :
  /\ r.pc = "onchain"
  /\ Caught(r, "onchain_throw")

\* an underflow reset that empties the whole ledger
UnderflowResetLedger ==
  \E r \in BagToSet(ticks) :
  /\ r.pc = "onchain"
  /\ \E onChainRaw \in OnChainVals : Underflow(onChainRaw, state.buys)
  /\ state' = EmptyState(state.tokenMint)
  /\ disk' = save(state')
  /\ End(r)
  /\ Did("underflow_reset")
  /\ UNCHANGED <<cfg, bollinger, corrupt, notify, pausedForNoFunds, chain, hist>>

UnderflowReset ==
  \E r \in BagToSet(ticks) :
  /\ r.pc = "onchain"
  /\ \E onChainRaw \in OnChainVals : Underflow(onChainRaw, state.buys)
  /\ state' = [state EXCEPT !.buys = ClearBuys(@)]
  /\ disk' = save(state')
  /\ End(r)
  /\ Did("underflow_reset")
  /\ UNCHANGED <<cfg, bollinger, corrupt, notify, pausedForNoFunds, chain, hist>>

UnderflowNone ==
  \E r \in BagToSet(ticks) :
  /\ r.pc = "onchain"
  /\ \E onChainRaw \in OnChainVals : ~Underflow(onChainRaw, state.buys)
  /\ Goto(r, [r EXCEPT !.pc = "price"])
  /\ Did("underflow_none")
  /\ UNCHANGED <<cfg, bollinger, corrupt, notify, state, disk, pausedForNoFunds, chain, hist>>

\* await jup.quote(1 token) and await solPriceUSD()
PriceThrows ==
  \E r \in BagToSet(ticks) :
  /\ r.pc = "price"
  /\ Caught(r, "price_throw")

\* execBuy starts: the balance pre-check in verbose mode, else the quote
BuyPc == IF cfg.proVersion THEN "buy_balance" ELSE "buy_swap"

\* a first buy that spends the size of the ladder's second entry
FirstBuyRungSized ==
  \E r \in BagToSet(ticks) :
  /\ r.pc = "price"
  /\ state.buys = <<>>
  /\ \E price \in Prices :
       Goto(r, [r EXCEPT !.pc = BuyPc, !.price = price,
                                !.lamports = nextSize(1)])
  /\ Did("first_buy")
  /\ UNCHANGED <<cfg, bollinger, corrupt, notify, state, disk, pausedForNoFunds, chain, hist>>

\* buys.length === 0: "First buy", execBuy(initialBuyLamports, price)
FirstBuy ==
  \E r \in BagToSet(ticks) :
  /\ r.pc = "price"
  /\ state.buys = <<>>
  /\ \E price \in Prices :
       Goto(r, [r EXCEPT !.pc = BuyPc, !.price = price,
                                !.lamports = initialBuyLamports])
  /\ Did("first_buy")
  /\ UNCHANGED <<cfg, bollinger, corrupt, notify, state, disk, pausedForNoFunds, chain, hist>>

\* buys.length > 0: the thresholds and the next size are computed, then the
\* tick awaits the preview (notify, and fetchBalance in verbose mode)
Thresholds ==
  \E r \in BagToSet(ticks) :
  /\ r.pc = "price"
  /\ state.buys # <<>>
  /\ \E price \in Prices :
       Goto(r, [r EXCEPT !.pc = "preview", !.price = price,
                                !.buyHit = BuyHit(price, state.buys),
                                !.sellHit = SellHit(price, state.buys),
                                !.lamports = NextLamports(state.buys)])
  /\ Did("thresholds")
  /\ UNCHANGED <<cfg, bollinger, corrupt, notify, state, disk, pausedForNoFunds, chain, hist>>

\* verbose mode, nextLamports !== null: await fetchBalance() rejects
PreviewThrows ==
  \E r \in BagToSet(ticks) :
  /\ r.pc = "preview"
  /\ cfg.proVersion
  /\ r.lamports # 0
  /\ Caught(r, "preview_throw")

\* the tick ends with no trade: rolling PnL notification, lastTickTime
Hold(r, name) ==
  /\ End(r)
  /\ Did(name)
  /\ UNCHANGED <<cfg, bollinger, corrupt, notify, state, disk, pausedForNoFunds, chain, hist>>

\* price <= buyBelow and pausedForNoFunds
HoldPaused ==
  \E r \in BagToSet(ticks) :
  /\ r.pc = "preview"
  /\ r.buyHit
  /\ pausedForNoFunds
  /\ Hold(r, "hold_paused")

\* price <= buyBelow, not paused, maxBuys !== 0 and buys.length >= maxBuys
HoldCap ==
  \E r \in BagToSet(ticks) :
  /\ r.pc = "preview"
  /\ r.buyHit
  /\ ~pausedForNoFunds
  /\ cfg.maxBuys # 0 /\ Len(state.buys) >= cfg.maxBuys
  /\ Hold(r, "hold_cap")

\* price <= buyBelow, not paused, below the cap, nextLamports !== null
RungBuy ==
  \E r \in BagToSet(ticks) :
  /\ r.pc = "preview"
  /\ r.buyHit
  /\ ~pausedForNoFunds
  /\ ~(cfg.maxBuys # 0 /\ Len(state.buys) >= cfg.maxBuys)
  /\ r.lamports # 0
  /\ Goto(r, [r EXCEPT !.pc = BuyPc, !.buyHit = FALSE, !.sellHit = FALSE])
  /\ Did("rung_buy")
  /\ UNCHANGED <<cfg, bollinger, corrupt, notify, state, disk, pausedForNoFunds, chain, hist>>

\* neither branch taken (or price <= buyBelow with nextLamports === null
\* and the ladder emptied since)
HoldIdle ==
  \E r \in BagToSet(ticks) :
  /\ r.pc = "preview"
  /\ \/ ~r.buyHit /\ ~r.sellHit
     \/ /\ r.buyHit
        /\ ~pausedForNoFunds
        /\ ~(cfg.maxBuys # 0 /\ Len(state.buys) >= cfg.maxBuys)
        /\ r.lamports = 0
  /\ Hold(r, "hold")

\* else if (price >= sellAbove): execSellAll runs up to its first await
SellStart ==
  \E r \in BagToSet(ticks) :
  /\ r.pc = "preview"
  /\ ~r.buyHit
  /\ r.sellHit
  /\ Goto(r, [IdleTick EXCEPT !.pc = "sell_balance",
                              !.pausedAtStart = r.pausedAtStart,
                              !.totalRaw = SumTokens(state.buys)])
  /\ Did("sell_start")
  /\ UNCHANGED <<cfg, bollinger, corrupt, notify, state, disk, pausedForNoFunds, chain, hist>>

\* ---------------------------------------------------------------- execBuy
\* verbose mode: await fetchBalance() rejects
BuyBalanceThrows ==
  \E r \in BagToSet(ticks) :
  /\ r.pc = "buy_balance"
  /\ Caught(r, "buy_balance_throw")

\* verbose mode: balance < lamports, throw new Error("Insufficient SOL for
\* buy") outside execBuy's try block
BuyBalanceShort ==
  \E r \in BagToSet(ticks) :
  /\ r.pc = "buy_balance"
  /\ Caught(r, "buy_balance_short")

BuyBalanceOk ==
  \E r \in BagToSet(ticks) :
  /\ r.pc = "buy_balance"
  /\ Goto(r, [r EXCEPT !.pc = "buy_swap"])
  /\ Did("buy_balance_ok")
  /\ UNCHANGED <<cfg, bollinger, corrupt, notify, state, disk, pausedForNoFunds, chain, hist>>

\* jup.quote, jup.swap or getSignatureStatus rejects with an error that has
\* no "insufficient lamports" log: execBuy rethrows it
BuyThrows ==
  \E r \in BagToSet(ticks) :
  /\ r.pc = "buy_swap"
  /\ Caught(r, "buy_throw")

\* confirm(sig) returns false (error status, or the 90 s deadline):
\* throw new Error("Buy ... failed/timeout"), rethrown by execBuy's catch
BuyUnconfirmed ==
  \E r \in BagToSet(ticks) :
  /\ r.pc = "buy_swap"
  /\ Caught(r, "buy_unconfirmed")

\* jup.swap rejects with transactionLogs holding "insufficient lamports":
\* execBuy sets the pause flag and returns, tick saves and ends
BuyPaused ==
  \E r \in BagToSet(ticks) :
  /\ r.pc = "buy_swap"
  /\ pausedForNoFunds' = TRUE
  /\ disk' = save(state)
  /\ End(r)
  /\ Did("buy_paused")
  /\ UNCHANGED <<cfg, bollinger, corrupt, notify, state, chain, hist>>

\* confirm(sig) returns true: the BuyEntry is pushed; execBuy goes on to
\* await solPriceUSD() for the trade log
BuyConfirmed ==
  \E r \in BagToSet(ticks) :
  /\ r.pc = "buy_swap"
  /\ \E outAmount \in TokenOuts :
       state' = [state EXCEPT !.buys =
                   PushBuy(@, [price |-> r.price,
                               lamports |-> r.lamports,
                               tokensRaw |-> outAmount])]
  /\ Goto(r, [IdleTick EXCEPT !.pc = "buy_log",
                              !.pausedAtStart = r.pausedAtStart])
  /\ Did("buy_confirmed")
  /\ UNCHANGED <<cfg, bollinger, corrupt, notify, disk, pausedForNoFunds, chain, hist>>

\* solPriceUSD() rejects (its 120 s cache has expired) or logTrade throws:
\* execBuy rethrows, tick's save() is skipped
BuyLogThrows ==
  \E r \in BagToSet(ticks) :
  /\ r.pc = "buy_log"
  /\ Caught(r, "buy_log_throw")

\* execBuy returns; tick: this.state.save()
BuySaved ==
  \E r \in BagToSet(ticks) :
  /\ r.pc = "buy_log"
  /\ disk' = save(state)
  /\ End(r)
  /\ Did("buy_saved")
  /\ UNCHANGED <<cfg, bollinger, corrupt, notify, state, pausedForNoFunds, chain, hist>>

\* ------------------------------------------------------------ execSellAll
\* conn.getTokenAccountBalance rejects (an account not found included)
SellBalanceThrows ==
  \E r \in BagToSet(ticks) :
  /\ r.pc = "sell_balance"
  /\ Caught(r, "sell_balance_throw")

\* sellRaw === 0n: the ladder is cleared and saved, execSellAll returns,
\* tick saves again.  totalRaw was summed before the balance was awaited; the
\* step is named "sell_underflow" when the balance read is an underflow of
\* the ladder being cleared, "sell_nothing" otherwise
SellNothing ==
  \E r \in BagToSet(ticks) :
  /\ r.pc = "sell_balance"
  /\ \E onChainRaw \in OnChainVals :
       /\ (IF onChainRaw < r.totalRaw THEN onChainRaw ELSE r.totalRaw) = 0
       /\ Did(IF Underflow(onChainRaw, state.buys)
              THEN "sell_underflow" ELSE "sell_nothing")
  /\ state' = [state EXCEPT !.buys = ClearBuys(@)]
  /\ disk' = save(state')
  /\ End(r)
  /\ UNCHANGED <<cfg, bollinger, corrupt, notify, pausedForNoFunds, chain, hist>>

SellBalanceOk ==
  \E r \in BagToSet(ticks) :
  /\ r.pc = "sell_balance"
  /\ \E onChainRaw \in OnChainVals :
       (IF onChainRaw < r.totalRaw THEN onChainRaw ELSE r.totalRaw) # 0
  /\ Goto(r, [r EXCEPT !.pc = "sell_quote", !.totalRaw = 0])
  /\ Did("sell_balance_ok")
  /\ UNCHANGED <<cfg, bollinger, corrupt, notify, state, disk, pausedForNoFunds, chain, hist>>

\* jup.quote or solPriceUSD rejects
SellQuoteThrows ==
  \E r \in BagToSet(ticks) :
  /\ r.pc = "sell_quote"
  /\ Caught(r, "sell_quote_throw")

\* the cost basis execSellAll reads once the quote and the SOL price are in
CostLamports == SumLamports(state.buys)

\* the quoted outAmount, as a percentage of the cost basis (of the first
\* rung's size when the ladder has been emptied meanwhile)
QuoteOut(pct) ==
  ((IF CostLamports = 0 THEN initialBuyLamports ELSE CostLamports) * pct) \div 100

\* a skipped sell that clears the pause flag as a completed sell does
SellSkipClearsPause ==
  \E r \in BagToSet(ticks) :
  /\ r.pc = "sell_quote"
  /\ \E pct \in SellOutPcts, impact \in PriceImpacts :
       SellSkipped(QuoteOut(pct), CostLamports, impact)
  /\ pausedForNoFunds' = FALSE
  /\ disk' = save(state)
  /\ End(r)
  /\ Did("sell_skipped")
  /\ UNCHANGED <<cfg, bollinger, corrupt, notify, state, chain, hist>>

\* worstCaseUsd < neededUsd: "Skipping sell", execSellAll returns, tick saves
SellSkip ==
  \E r \in BagToSet(ticks) :
  /\ r.pc = "sell_quote"
  /\ \E pct \in SellOutPcts, impact \in PriceImpacts :
       SellSkipped(QuoteOut(pct), CostLamports, impact)
  /\ disk' = save(state)
  /\ End(r)
  /\ Did("sell_skipped")
  /\ UNCHANGED <<cfg, bollinger, corrupt, notify, state, pausedForNoFunds, chain, hist>>

\* the quote passes the check: await jup.swap, await confirm
SellSubmit ==
  \E r \in BagToSet(ticks) :
  /\ r.pc = "sell_quote"
  /\ \E pct \in SellOutPcts, impact \in PriceImpacts, solUsd \in SolUsds :
       /\ ~SellSkipped(QuoteOut(pct), CostLamports, impact)
       /\ Goto(r, [r EXCEPT !.pc = "sell_swap",
                                   !.diff = QuoteOut(pct) - CostLamports,
                                   !.solUsd = solUsd])
  /\ Did("sell_submit")
  /\ UNCHANGED <<cfg, bollinger, corrupt, notify, state, disk, pausedForNoFunds, chain, hist>>

\* jup.swap or getSignatureStatus rejects, or confirm(sig) returns false
SellFails ==
  \E r \in BagToSet(ticks) :
  /\ r.pc = "sell_swap"
  /\ Caught(r, "sell_fail")

\* confirm(sig) returns true and logTrade throws (the CSV cannot be
\* appended to) before sells.push and buys = []
SellLogThrows ==
  \E r \in BagToSet(ticks) :
  /\ r.pc = "sell_swap"
  /\ Caught(r, "sell_log_throw")

\* a sell that keeps its own summary only
SoldStateLast(r) ==
  [state EXCEPT !.sells = <<[diffSol |-> r.diff]>>,
                !.buys = ClearBuys(@),
                !.pendingTipLamports =
                   IF TipLamports(r.diff) > 0
                   THEN AccrueTip(@, TipLamports(r.diff)) ELSE @]

\* confirm(sig) returns true: sells.push, buys = [], then the tip jar
SoldState(r) ==
  [state EXCEPT !.sells = Append(@, [diffSol |-> r.diff]),
                !.buys = ClearBuys(@),
                !.pendingTipLamports =
                   IF TipLamports(r.diff) > 0
                   THEN AccrueTip(@, TipLamports(r.diff)) ELSE @]

Accrue(r) ==
  hist' = [hist EXCEPT !.accrued =
             IF TipLamports(r.diff) > 0
             THEN @ + TipLamports(r.diff) ELSE @]

\* the pending tip is worth less than $0.01 (or nothing was added):
\* "Tip accrued", the pause flag is cleared, execSellAll returns, tick saves
SellDone ==
  \E r \in BagToSet(ticks) :
  /\ r.pc = "sell_swap"
  /\ state' = SoldState(r)
  /\ ~(TipLamports(r.diff) > 0
       /\ TipDue(state'.pendingTipLamports, r.solUsd))
  /\ Accrue(r)
  /\ pausedForNoFunds' = FALSE
  /\ disk' = save(state')
  /\ End(r)
  /\ Did("sell_done")
  /\ UNCHANGED <<cfg, bollinger, corrupt, notify, chain>>

\* the pending tip is worth $0.01 or more: the whole of it is sent to the
\* creator address, await sendTransaction, await confirm
SellDoneTip ==
  \E r \in BagToSet(ticks) :
  /\ r.pc = "sell_swap"
  /\ state' = SoldState(r)
  /\ TipLamports(r.diff) > 0
  /\ TipDue(state'.pendingTipLamports, r.solUsd)
  /\ Accrue(r)
  /\ Goto(r, [IdleTick EXCEPT !.pc = "tip",
                              !.pausedAtStart = r.pausedAtStart,
                              !.sent = state'.pendingTipLamports])
  /\ Did("sell_done")
  /\ UNCHANGED <<cfg, bollinger, corrupt, notify, disk, pausedForNoFunds, chain>>

\* conn.sendTransaction rejects: nothing was sent, tick's catch block
TipSendThrows ==
  \E r \in BagToSet(ticks) :
  /\ r.pc = "tip"
  /\ Caught(r, "tip_send_throw")

\* the transfer was sent and getSignatureStatus rejects: tick's catch block,
\* while the transfer may still settle
TipConfirmThrows ==
  \E r \in BagToSet(ticks) :
  /\ r.pc = "tip"
  /\ chain' = [chain EXCEPT !.unsettled = Append(@, r.sent)]
  /\ End(r)
  /\ Did("tip_confirm_throw")
  /\ UNCHANGED <<cfg, bollinger, corrupt, notify, state, disk, pausedForNoFunds, hist>>

\* confirm(tipSig) returns false on an error status: "Tip transfer failed",
\* execSellAll returns before the pause flag is cleared, tick saves
TipFailed ==
  \E r \in BagToSet(ticks) :
  /\ r.pc = "tip"
  /\ disk' = save(state)
  /\ End(r)
  /\ Did("tip_failed")
  /\ UNCHANGED <<cfg, bollinger, corrupt, notify, state, pausedForNoFunds, chain, hist>>

\* confirm(tipSig) returns false on the 90 s deadline: as TipFailed, while
\* the transfer may still settle
TipTimeout ==
  \E r \in BagToSet(ticks) :
  /\ r.pc = "tip"
  /\ chain' = [chain EXCEPT !.unsettled = Append(@, r.sent)]
  /\ disk' = save(state)
  /\ End(r)
  /\ Did("tip_timeout")
  /\ UNCHANGED <<cfg, bollinger, corrupt, notify, state, pausedForNoFunds, hist>>

\* confirm(tipSig) returns true: pendingTipLamports = 0n, the pause flag is
\* cleared, execSellAll returns, tick saves
TipPaid ==
  \E r \in BagToSet(ticks) :
  /\ r.pc = "tip"
  /\ chain' = [chain EXCEPT !.paid = @ + r.sent]
  /\ state' = [state EXCEPT !.pendingTipLamports = 0]
  /\ pausedForNoFunds' = FALSE
  /\ disk' = save(state')
  /\ End(r)
  /\ Did("tip_paid")
  /\ UNCHANGED <<cfg, bollinger, corrupt, notify, hist>>

\* a transfer whose confirmation was not seen settles on chain
LateSettle ==
  /\ chain.unsettled # <<>>
  /\ chain' = [paid |-> chain.paid + Head(chain.unsettled),
               unsettled |-> Tail(chain.unsettled)]
  /\ Did("late_settle")
  /\ UNCHANGED <<cfg, bollinger, corrupt, notify, state, disk, pausedForNoFunds, ticks, timer, hist>>

\* ------------------------------------------------------------------- Next
Next ==
  \/ TimerFire
  \/ \E tok \in Tokens : Restart(tok)
  \/ ManualThrows \/ ManualNone \/ ManualReset \/ OnChainThrows
  \/ UnderflowReset \/ UnderflowNone \/ PriceThrows \/ FirstBuy
  \/ Thresholds \/ PreviewThrows \/ HoldPaused \/ HoldCap
  \/ RungBuy \/ HoldIdle \/ SellStart \/ BuyBalanceThrows
  \/ BuyBalanceShort \/ BuyBalanceOk \/ BuyThrows \/ BuyUnconfirmed
  \/ BuyPaused \/ BuyConfirmed \/ BuyLogThrows \/ BuySaved
  \/ SellBalanceThrows \/ SellNothing \/ SellBalanceOk \/ SellQuoteThrows
  \/ SellSkip \/ SellSubmit \/ SellFails \/ SellLogThrows
  \/ SellDone \/ SellDoneTip \/ TipSendThrows \/ TipConfirmThrows
  \/ TipFailed \/ TipTimeout \/ TipPaid
  \/ LateSettle

Spec == Init /\ [][Next]_vars

\* ================================================================ claims
Tip(s) == s.pendingTipLamports

\* the events in which tick's catch block ends the tick
CaughtEvents ==
  {"manual_throw", "onchain_throw", "price_throw", "preview_throw",
   "buy_balance_throw", "buy_balance_short", "buy_throw", "buy_unconfirmed",
   "buy_log_throw", "sell_balance_throw", "sell_quote_throw", "sell_fail",
   "sell_log_throw", "tip_send_throw", "tip_confirm_throw"}

\* ------------------------------------------------- StateStore on its own
\* The store taken alone: the file is whatever was left in the directory, the
\* fields are written by the bot, and the store is constructed (load) and
\* saved in any order.
StoreMints == Tokens \cup {<<>>, <<"7", "n">>}

StoreStates ==
  [tokenMint : StoreMints,
   buys : {<<>>, <<[price |-> 90, lamports |-> initialBuyLamports, tokensRaw |-> 30]>>},
   sells : {<<>>, <<[diffSol |-> 5]>>},
   pendingTipLamports : {0, 7}]

\* dca_state.json as load() may find it: absent or of size 0, written by
\* save(), or a snapshot edited so that its tip is the string "7x"
StoreFiles ==
  {<<>>} \cup {save(s) : s \in StoreStates}
         \cup {<<[save(s)[1] EXCEPT !.pendingTipLamports = [digits |-> 7, suffix |-> "x"]]>> :
                 s \in {t \in StoreStates : t.tokenMint = <<"A">>}}

\* the rest of the program does not run
StoreIdle ==
  UNCHANGED <<cfg, pausedForNoFunds, ticks, timer, chain, hist, bollinger, notify>>

InitStore ==
  /\ cfg = [toTokenMint |-> <<"A">>, proVersion |-> FALSE, maxBuys |-> 0,
            bollingerNoBuy |-> TRUE]
  /\ state = EmptyState(<<>>)
  /\ disk \in StoreFiles
  /\ corrupt = {}
  /\ notify = NotifyOff
  /\ pausedForNoFunds = FALSE
  /\ ticks = EmptyBag
  /\ timer = "first"
  /\ chain = [paid |-> 0, unsettled |-> <<>>]
  /\ hist = [accrued |-> 0, nticks |-> 0, overlapped |-> FALSE, fromEmpty |-> TRUE]
  /\ bollinger = <<>>
  /\ ev = "boot"

\* new StateStore(): the field initialisers, then load()
StoreConstruct ==
  /\ LoadThrows(disk) => Cardinality(corrupt) < MaxQuarantined
  /\ state' = load(disk)
  /\ disk' = IF LoadThrows(disk) THEN <<>> ELSE disk
  /\ corrupt' = Quarantine(disk, corrupt)
  /\ Did(IF disk = <<>> THEN "load_none"
         ELSE IF LoadThrows(disk) THEN "load_renamed" ELSE "load_ok")
  /\ StoreIdle

\* the bot assigns the public fields
StoreAssign ==
  /\ \E s \in StoreStates : state' = s
  /\ state' # state
  /\ Did("assign")
  /\ UNCHANGED <<disk, corrupt>>
  /\ StoreIdle

\* StateStore.save()
StoreSave ==
  /\ disk' = save(state)
  /\ Did("save")
  /\ UNCHANGED <<state, corrupt>>
  /\ StoreIdle

NextStore == StoreConstruct \/ StoreAssign \/ StoreSave

SpecStore == InitStore /\ [][NextStore]_vars

\* ------------------------------------------------- the ladder on its own
\* Ticks run one after the other from an empty ladder, with no reset and no
\* sell: each of them that trades makes the first buy or a rung buy, and
\* the buy is confirmed and recorded.  The first size and the multiplier
\* are drawn from the configuration.
VolMults ==
  {[num |-> 1, den |-> 1], [num |-> 2, den |-> 1], [num |-> 3, den |-> 1],
   [num |-> 3, den |-> 2]}

InitialBuys == {1, 7, initialBuyLamports}

InitLadder ==
  /\ \E a \in InitialBuys, m \in VolMults :
       cfg = [toTokenMint |-> <<"A">>, proVersion |-> FALSE, maxBuys |-> 0,
              bollingerNoBuy |-> TRUE, initialBuyLamports |-> a, dcaVolMult |-> m]
  /\ state = EmptyState(<<"A">>)
  /\ disk = save(state)
  /\ corrupt = {}
  /\ notify = NotifyOff
  /\ pausedForNoFunds = FALSE
  /\ ticks = EmptyBag
  /\ timer = "interval"
  /\ chain = [paid |-> 0, unsettled |-> <<>>]
  /\ hist = [accrued |-> 0, nticks |-> 0, overlapped |-> FALSE, fromEmpty |-> TRUE]
  /\ bollinger = <<>>
  /\ ev = "boot"

\* one tick from its call to its return: the first buy of initialBuyLamports
\* on the empty ladder, else a rung buy of nextSize(buys.length); execBuy
\* pushes the entry and tick saves
LadderBuy ==
  /\ Len(state.buys) < MaxRungs
  /\ \E price \in Prices, outAmount \in TokenOuts :
       state' = [state EXCEPT !.buys =
                   PushBuy(@, [price |-> price,
                               lamports |->
                                 IF state.buys = <<>> THEN cfg.initialBuyLamports
                                 ELSE nextSizeOf(cfg.initialBuyLamports,
                                                 cfg.dcaVolMult.num,
                                                 cfg.dcaVolMult.den,
                                                 Len(state.buys)),
                               tokensRaw |-> outAmount])]
  /\ disk' = save(state')
  /\ Did("buy_saved")
  /\ UNCHANGED <<cfg, bollinger, corrupt, notify, pausedForNoFunds, ticks, timer,
                 chain, hist>>

NextLadder == LadderBuy

SpecLadder == InitLadder /\ [][NextLadder]_vars

\* --------------------------------------------- the decision on its own
\* One tick after the other on a given ladder, each running alone from its
\* price to its branch; prices are in hundredths of a cent here, and
\* SELL_PROFIT_PCT is 2.5 or 5.
DecisionPrices == {8000, 9970, 9980, 10000}

DecisionLadders ==
  LET entries == [price : {9000, 10000}, lamports : {initialBuyLamports},
                  tokensRaw : TokenOuts]
  IN {<<e>> : e \in entries} \cup {<<e1, e2>> : e1 \in entries, e2 \in entries}

InitDecision ==
  /\ \E profit \in {sellProfitPerMille, 50} :
       cfg = [toTokenMint |-> <<"A">>, proVersion |-> FALSE, maxBuys |-> 0,
              bollingerNoBuy |-> TRUE, sellProfitPerMille |-> profit]
  /\ \E buys \in DecisionLadders : state = [EmptyState(<<"A">>) EXCEPT !.buys = buys]
  /\ disk = save(state)
  /\ corrupt = {}
  /\ notify = NotifyOff
  /\ pausedForNoFunds = FALSE
  /\ ticks = EmptyBag
  /\ timer = "interval"
  /\ chain = [paid |-> 0, unsettled |-> <<>>]
  /\ hist = [accrued |-> 0, nticks |-> 0, overlapped |-> FALSE, fromEmpty |-> FALSE]
  /\ bollinger = <<>>
  /\ ev = "boot"

\* the thresholds and the branch of tick; the tick is then left at the
\* first await of the branch it took
Decide ==
  /\ \E price \in DecisionPrices :
       LET buyHit == BuyHit(price, state.buys)
           sellHit == SellHitAt(price, state.buys, cfg.sellProfitPerMille)
       IN /\ ticks' = SetToBag({[IdleTick EXCEPT !.pc = "decided", !.price = price,
                                                 !.buyHit = buyHit,
                                                 !.sellHit = sellHit]})
          /\ Did(IF buyHit THEN "rung_buy" ELSE IF sellHit THEN "sell_start" ELSE "hold")
  /\ UNCHANGED <<cfg, bollinger, corrupt, notify, state, disk, pausedForNoFunds,
                 timer, chain, hist>>

NextDecision == Decide

SpecDecision == InitDecision /\ [][NextDecision]_vars

\* -------------------------------------------- the triggers on their own
\* Ticks run one after the other from an empty ledger, each from its price
\* to its return, under a BUY_DROP_PCT, a DCA_PCT_MULT and a
\* SELL_PROFIT_PCT drawn from the configuration; every swap delivers a
\* positive amount, and is confirmed or not.
TriggerPrices == {40, 80, 90, 99, 100}

DropPcts == {1, 10, 100}

PctMults == {[num |-> 1, den |-> 2], [num |-> 1, den |-> 1], [num |-> 2, den |-> 1]}

InitTrigger ==
  /\ \E drop \in DropPcts, mult \in PctMults, profit \in {0, sellProfitPerMille} :
       cfg = [toTokenMint |-> <<"A">>, proVersion |-> FALSE, maxBuys |-> 0,
              bollingerNoBuy |-> TRUE, buyDropPct |-> drop, dcaPctMult |-> mult,
              sellProfitPerMille |-> profit]
  /\ state = EmptyState(<<"A">>)
  /\ disk = save(state)
  /\ corrupt = {}
  /\ notify = NotifyOff
  /\ pausedForNoFunds = FALSE
  /\ ticks = EmptyBag
  /\ timer = "interval"
  /\ chain = [paid |-> 0, unsettled |-> <<>>]
  /\ hist = [accrued |-> 0, nticks |-> 0, overlapped |-> FALSE, fromEmpty |-> TRUE,
             buyHit |-> FALSE, sellHit |-> FALSE]
  /\ bollinger = <<>>
  /\ ev = "boot"

\* the two conditions the tick computes at this price on the current ladder
TriggerBuyHit(price) ==
  BuyHitAt(price, state.buys,
           nextDropPctOf(cfg.buyDropPct, cfg.dcaPctMult, Len(state.buys)))

TriggerSellHit(price) == SellHitAt(price, state.buys, cfg.sellProfitPerMille)

\* what the tick found is kept for the properties
Found(price) ==
  hist' = [hist EXCEPT !.buyHit = TriggerBuyHit(price),
                       !.sellHit = TriggerSellHit(price)]

\* execBuy: the entry is pushed when confirm(sig) returns true
Bought(price, outAmount, ok) ==
  state' = [state EXCEPT !.buys =
              IF ok
              THEN PushBuy(@, [price |-> price,
                               lamports |-> nextSize(Len(state.buys)),
                               tokensRaw |-> outAmount])
              ELSE @]

TriggerFrame ==
  /\ disk' = save(state')
  /\ UNCHANGED <<cfg, bollinger, corrupt, notify, pausedForNoFunds, ticks, timer,
                 chain>>

\* tick on an empty ladder: the first buy, at any price
TriggerFirstBuy ==
  /\ state.buys = <<>>
  /\ \E price \in TriggerPrices, outAmount \in TokenOuts, ok \in BOOLEAN :
       Bought(price, outAmount, ok)
  /\ hist' = [hist EXCEPT !.buyHit = FALSE, !.sellHit = FALSE]
  /\ Did("first_buy")
  /\ TriggerFrame

\* tick: price <= buyBelow, the rung buy
TriggerRungBuy ==
  /\ state.buys # <<>>
  /\ Len(state.buys) < MaxRungs
  /\ \E price \in TriggerPrices, outAmount \in TokenOuts, ok \in BOOLEAN :
       /\ TriggerBuyHit(price)
       /\ Bought(price, outAmount, ok)
       /\ Found(price)
  /\ Did("rung_buy")
  /\ TriggerFrame

\* tick: else if price >= sellAbove, the sell of the whole ladder
TriggerSell ==
  /\ state.buys # <<>>
  /\ \E price \in TriggerPrices, ok \in BOOLEAN :
       /\ ~TriggerBuyHit(price)
       /\ TriggerSellHit(price)
       /\ state' = [state EXCEPT !.buys = IF ok THEN ClearBuys(@) ELSE @]
       /\ Found(price)
  /\ Did("sell_start")
  /\ TriggerFrame

\* tick: neither branch, or a full ladder below buyBelow
TriggerHold ==
  /\ state.buys # <<>>
  /\ \E price \in TriggerPrices :
       /\ \/ ~TriggerBuyHit(price) /\ ~TriggerSellHit(price)
          \/ TriggerBuyHit(price) /\ Len(state.buys) >= MaxRungs
       /\ Found(price)
  /\ state' = state
  /\ Did("hold")
  /\ TriggerFrame

NextTrigger == TriggerFirstBuy \/ TriggerRungBuy \/ TriggerSell \/ TriggerHold

SpecTrigger == InitTrigger /\ [][NextTrigger]_vars

\* ------------------------------------------- the underflow guard on its own
\* detectUnderflowAndReset run by one tick after the other on ladders of
\* small raw amounts, so that expectedRaw * 9 is not always a multiple of 10.
GuardLadders ==
  LET entries == [price : {100}, lamports : {initialBuyLamports},
                  tokensRaw : {1, 5, 6, 10}]
  IN {<<>>} \cup {<<e>> : e \in entries}
            \cup {<<e1, e2>> : e1 \in entries, e2 \in entries}

\* what conn.getTokenAccountBalance answers: an amount, the RPC error
\* "could not find account", or another rejection
BalanceReplies ==
  [kind : {"amount"}, amount : 0..MaxOnChainRaw]
    \cup {[kind |-> "not_found", amount |-> 0], [kind |-> "error", amount |-> 0]}

\* fetchOnChainRaw: BigInt(resp.value.amount), 0n for an account not found
fetchOnChainRaw(reply) == IF reply.kind = "not_found" THEN 0 ELSE reply.amount

InitGuard ==
  /\ cfg = [toTokenMint |-> <<"A">>, proVersion |-> FALSE, maxBuys |-> 0,
            bollingerNoBuy |-> TRUE]
  /\ \E buys \in GuardLadders : state = [EmptyState(<<"A">>) EXCEPT !.buys = buys]
  /\ disk = save(state)
  /\ corrupt = {}
  /\ notify = NotifyOff
  /\ pausedForNoFunds = FALSE
  /\ ticks = EmptyBag
  /\ timer = "interval"
  /\ chain = [paid |-> 0, unsettled |-> <<>>]
  /\ hist = [accrued |-> 0, nticks |-> 0, overlapped |-> FALSE, fromEmpty |-> FALSE]
  /\ bollinger = <<>>
  /\ ev = "boot"

\* tick up to the return value of detectUnderflowAndReset; the record left
\* in ticks holds what the guard compared
GuardTick ==
  \E reply \in BalanceReplies :
    LET onChainRaw == fetchOnChainRaw(reply)
        fires == reply.kind # "error" /\ Underflow(onChainRaw, state.buys)
    IN /\ ticks' = SetToBag({[pc |-> "guard", onChainRaw |-> onChainRaw,
                               expectedRaw |-> SumTokens(state.buys)]})
       /\ state' = IF fires THEN [state EXCEPT !.buys = ClearBuys(@)] ELSE state
       /\ disk' = IF fires THEN save(state') ELSE disk
       /\ Did(IF reply.kind = "error" THEN "onchain_throw"
              ELSE IF fires THEN "underflow_reset" ELSE "underflow_none")
       /\ UNCHANGED <<cfg, bollinger, corrupt, notify, pausedForNoFunds, timer,
                      chain, hist>>

NextGuard == GuardTick

SpecGuard == InitGuard /\ [][NextGuard]_vars

\* ------------------------------------------------- the tip jar on its own
\* execSellAll from the confirmed swap on, one sell after the other, for
\* realized profits that SELL_PROFIT_PCT = 0 allows: none, a loss, one too
\* small to yield a lamport of tip, and larger ones.
TipDiffs == {-500, 0, 50, 5000, 20000}

InitTip ==
  /\ cfg = [toTokenMint |-> <<"A">>, proVersion |-> FALSE, maxBuys |-> 0,
            bollingerNoBuy |-> TRUE]
  /\ state = EmptyState(<<"A">>)
  /\ disk = save(state)
  /\ corrupt = {}
  /\ notify = NotifyOff
  /\ pausedForNoFunds = FALSE
  /\ ticks = EmptyBag
  /\ timer = "interval"
  /\ chain = [paid |-> 0, unsettled |-> <<>>]
  /\ hist = [accrued |-> 0, nticks |-> 0, overlapped |-> FALSE, fromEmpty |-> FALSE]
  /\ bollinger = <<>>
  /\ ev = "boot"

\* jup.swap is awaited with the quote and the SOL price in hand: diffSol is
\* outAmount less the cost basis
TipSellSubmit ==
  /\ InFlight = 0
  /\ hist.nticks < MaxTicks
  /\ \E diff \in TipDiffs, solUsd \in SolUsds :
       ticks' = SetToBag({[IdleTick EXCEPT !.pc = "sell_swap", !.diff = diff,
                                           !.solUsd = solUsd]})
  /\ hist' = [hist EXCEPT !.nticks = @ + 1]
  /\ Did("sell_submit")
  /\ UNCHANGED <<cfg, bollinger, corrupt, notify, state, disk, pausedForNoFunds,
                 timer, chain>>

NextTip ==
  \/ TipSellSubmit
  \/ SellFails \/ SellLogThrows
  \/ SellDone \/ SellDoneTip \/ TipSendThrows \/ TipConfirmThrows
  \/ TipFailed \/ TipTimeout \/ TipPaid
  \/ LateSettle

SpecTip == InitTip /\ [][NextTip]_vars

\* ------------------------------------------------- confirm() on its own
\* One call of confirm(sig) after the other.  Time is counted in seconds
\* from the call; a status query takes 0 or 1 s to answer and the timer of
\* the pause fires on time or 1 s late.
QueryTimes == {0, 1}
TimerLags == {0, 1}

\* what getSignatureStatus answers: no status (value null), a status with no
\* error at one of the three confirmation levels, or a status with an error
Statuses == {"none", "processed", "confirmed", "finalized", "err"}

ConfirmIdle ==
  [pc |-> "idle", now |-> 0, deadline |-> 0, polls |-> 0, last |-> "none",
   result |-> "none"]

\* the one call of confirm the bag holds
TheCall == CHOOSE c \in BagToSet(ticks) : TRUE

InitConfirm ==
  /\ cfg = [toTokenMint |-> <<"A">>, proVersion |-> FALSE, maxBuys |-> 0,
            bollingerNoBuy |-> TRUE]
  /\ state = EmptyState(<<"A">>)
  /\ disk = save(state)
  /\ corrupt = {}
  /\ notify = NotifyOff
  /\ pausedForNoFunds = FALSE
  /\ ticks = SetToBag({ConfirmIdle})
  /\ timer = "interval"
  /\ chain = [paid |-> 0, unsettled |-> <<>>]
  /\ hist = [accrued |-> 0, nticks |-> 0, overlapped |-> FALSE, fromEmpty |-> FALSE]
  /\ bollinger = <<>>
  /\ ev = "boot"

ConfirmFrame ==
  UNCHANGED <<cfg, bollinger, corrupt, notify, state, disk, pausedForNoFunds,
              timer, chain, hist>>

\* a loop test that lets one more pause begin a poll
LoopTestLate(now, deadline) == now < deadline + PollInterval

\* while (Date.now() < deadline)
LoopTest(now, deadline) == now < deadline

\* confirm(sig) is called: deadline = Date.now() + 90_000, the loop test
\* passes and the first query is awaited
ConfirmCall ==
  /\ TheCall.pc \in {"idle", "returned", "threw"}
  /\ ticks' = SetToBag({[ConfirmIdle EXCEPT !.pc = "query",
                                            !.deadline = ConfirmDeadline]})
  /\ Did("confirm")
  /\ ConfirmFrame

\* a query that takes a status below the confirmed level for a terminal one
ConfirmStatusAnyLevel ==
  /\ TheCall.pc = "query"
  /\ \E d \in QueryTimes, st \in Statuses :
       /\ ticks' = SetToBag({[TheCall EXCEPT
             !.now = @ + d, !.polls = @ + 1, !.last = st,
             !.pc = IF st = "none" THEN "sleep" ELSE "returned",
             !.result = IF st = "err" THEN "false"
                        ELSE IF st = "none" THEN "none" ELSE "true"]})
       /\ Did("status")
  /\ ConfirmFrame

\* getSignatureStatus answers: v.err returns false, confirmed or finalized
\* returns true, anything else begins the pause
ConfirmStatus ==
  /\ TheCall.pc = "query"
  /\ \E d \in QueryTimes, st \in Statuses :
       /\ ticks' = SetToBag({[TheCall EXCEPT
             !.now = @ + d, !.polls = @ + 1, !.last = st,
             !.pc = IF st \in {"none", "processed"} THEN "sleep" ELSE "returned",
             !.result = IF st = "err" THEN "false"
                        ELSE IF st \in {"confirmed", "finalized"} THEN "true"
                        ELSE "none"]})
       /\ Did("status")
  /\ ConfirmFrame

\* getSignatureStatus rejects: confirm rejects
ConfirmQueryThrows ==
  /\ TheCall.pc = "query"
  /\ ticks' = SetToBag({[TheCall EXCEPT !.pc = "threw", !.result = "threw"]})
  /\ Did("status_throw")
  /\ ConfirmFrame

\* the 2 s timer fires: the loop test either begins the next query or
\* fails, and confirm returns false
ConfirmWake ==
  /\ TheCall.pc = "sleep"
  /\ \E lag \in TimerLags :
       LET now == TheCall.now + PollInterval + lag
       IN ticks' = SetToBag({
            IF LoopTest(now, TheCall.deadline)
            THEN [TheCall EXCEPT !.now = now, !.pc = "query"]
            ELSE [TheCall EXCEPT !.now = now, !.pc = "returned",
                                 !.result = "false"]})
  /\ Did("wake")
  /\ ConfirmFrame

NextConfirm ==
  \/ ConfirmCall \/ ConfirmStatus \/ ConfirmQueryThrows \/ ConfirmWake

SpecConfirm == InitConfirm /\ [][NextConfirm]_vars

\* every status query is answered and every timer fires
SpecConfirmLive ==
  /\ SpecConfirm
  /\ WF_vars(ConfirmStatus)
  /\ WF_vars(ConfirmWake)

\* ------------------------------------------- tick's catch block on its own
\* One tick after the other through execSellAll, where a collaborator call
\* can reject before the ledger is written (jup.swap, the status query of the
\* swap) and after it (the tip transfer and its status query).  hist keeps
\* the ledger and the file as the tick found them and the error it caught;
\* notify.call is the send() the catch block makes.
Errors ==
  {[isString |-> TRUE, message |-> <<"Simulation", "failed:", "0x1771">>],
   [isString |-> TRUE, message |-> <<"Blockhash", "not", "found">>],
   [isString |-> FALSE, message |-> <<>>]}

\* benign0x1771: typeof e?.message === "string" && e.message.includes("0x1771")
benign0x1771(e) ==
  e.isString /\ \E i \in 1..Len(e.message) : e.message[i] = "0x1771"

InitCatch ==
  /\ cfg = [toTokenMint |-> <<"A">>, proVersion |-> FALSE, maxBuys |-> 0,
            bollingerNoBuy |-> TRUE]
  /\ state = EmptyState(<<"A">>)
  /\ disk = save(state)
  /\ corrupt = {}
  /\ notify = NotifyOff
  /\ pausedForNoFunds = FALSE
  /\ ticks = EmptyBag
  /\ timer = "interval"
  /\ chain = [paid |-> 0, unsettled |-> <<>>]
  /\ hist = [accrued |-> 0, nticks |-> 0, overlapped |-> FALSE, fromEmpty |-> FALSE,
             start |-> state, startDisk |-> disk,
             caught |-> [isString |-> FALSE, message |-> <<>>]]
  /\ bollinger = <<>>
  /\ ev = "boot"

\* a tick reaches jup.swap with the quote and the SOL price in hand, having
\* written nothing
CatchSellSubmit ==
  /\ InFlight = 0
  /\ hist.nticks < MaxTicks
  /\ \E diff \in TipDiffs, solUsd \in SolUsds :
       ticks' = SetToBag({[IdleTick EXCEPT !.pc = "sell_swap", !.diff = diff,
                                           !.solUsd = solUsd]})
  /\ hist' = [hist EXCEPT !.nticks = @ + 1, !.start = state, !.startDisk = disk]
  /\ notify' = [notify EXCEPT !.call = NoCall]
  /\ Did("sell_submit")
  /\ UNCHANGED <<cfg, bollinger, corrupt, state, disk, pausedForNoFunds, timer, chain>>

\* a catch block that saves the ledger
TickCatchSaving ==
  \E r \in BagToSet(ticks), e \in Errors, sent \in BOOLEAN :
  /\ r.pc \in {"sell_swap", "tip"}
  /\ chain' = IF r.pc = "tip" /\ sent
              THEN [chain EXCEPT !.unsettled = Append(@, r.sent)] ELSE chain
  /\ hist' = [hist EXCEPT !.caught = e]
  /\ notify' = [notify EXCEPT !.call =
                  IF benign0x1771(e)
                  THEN [NoCall EXCEPT !.kind = "TICK",
                                      !.attempted = Attempted(notify.cfg, "TICK")]
                  ELSE NoCall]
  /\ disk' = save(state)
  /\ End(r)
  /\ Did(IF benign0x1771(e) THEN "caught_benign" ELSE "caught_logged")
  /\ UNCHANGED <<cfg, bollinger, corrupt, state, pausedForNoFunds>>

\* a collaborator call rejects with e (the status queries after the transfer
\* or not): catch (e) { if (!benign0x1771(e)) console.error(e); else await
\* notify.send(TICK, ...) }
TickCatch ==
  \E r \in BagToSet(ticks), e \in Errors, sent \in BOOLEAN :
  /\ r.pc \in {"sell_swap", "tip"}
  /\ chain' = IF r.pc = "tip" /\ sent
              THEN [chain EXCEPT !.unsettled = Append(@, r.sent)] ELSE chain
  /\ hist' = [hist EXCEPT !.caught = e]
  /\ notify' = [notify EXCEPT !.call =
                  IF benign0x1771(e)
                  THEN [NoCall EXCEPT !.kind = "TICK",
                                      !.attempted = Attempted(notify.cfg, "TICK")]
                  ELSE NoCall]
  /\ End(r)
  /\ Did(IF benign0x1771(e) THEN "caught_benign" ELSE "caught_logged")
  /\ UNCHANGED <<cfg, bollinger, corrupt, state, disk, pausedForNoFunds>>

NextCatch ==
  \/ CatchSellSubmit
  \/ TickCatch
  \/ SellDone \/ SellDoneTip \/ TipFailed \/ TipTimeout \/ TipPaid
  \/ LateSettle

SpecCatch == InitCatch /\ [][NextCatch]_vars

\* --------------------------------------------- BollingerBands on its own
\* The getters as the program computes them, in binary floating point: every
\* sum, quotient, product and square root is rounded to the nearest number
\* of MantissaBits significant bits, ties to the even one.  Numbers are
\* counted in units of the smallest one.
RECURSIVE BitLen(_)
BitLen(n) == IF n = 0 THEN 0 ELSE 1 + BitLen(n \div 2)

\* the number nearest to a / b, for a >= 0 and b > 0
Fl(a, b) ==
  LET q == a \div b
      step == Pow(2, IF BitLen(q) > MantissaBits THEN BitLen(q) - MantissaBits ELSE 0)
      lower == (q \div step) * step
      rest == 2 * (a - lower * b)
      half == step * b
  IN IF rest < half THEN lower
     ELSE IF rest > half THEN lower + step
     ELSE IF (lower \div step) % 2 = 0 THEN lower ELSE lower + step

\* the same for a of either sign
FlS(a, b) == IF a < 0 THEN 0 - Fl(0 - a, b) ELSE Fl(a, b)

\* n is a number of the format: no rounding is needed to hold it
Representable(n) == Fl(n, 1) = n

\* Math.sqrt
Sqrt(v) ==
  LET s == CHOOSE s \in 0..v : s * s <= v /\ v < (s + 1) * (s + 1)
  IN Fl(IF v <= s * s + s THEN s ELSE s + 1, 1)

\* this.prices.reduce((a, b) => a + b, 0)
RECURSIVE SumOf(_)
SumOf(prices) ==
  IF prices = <<>> THEN 0
  ELSE Fl(SumOf(SubSeq(prices, 1, Len(prices) - 1)) + prices[Len(prices)], 1)

\* a getter's answer: <<>> for null, <<v>> for the number v
\* get mean
mean(prices, period) ==
  IF Len(prices) < period THEN <<>> ELSE <<Fl(SumOf(prices), Len(prices))>>

\* this.prices.reduce((sum, p) => sum + (p - mean) ** 2, 0)
RECURSIVE SumSqDev(_, _)
SumSqDev(prices, m) ==
  IF prices = <<>> THEN 0
  ELSE LET d == FlS(prices[Len(prices)] - m, 1)
       IN Fl(SumSqDev(SubSeq(prices, 1, Len(prices) - 1), m) + Fl(d * d, 1), 1)

\* get stdDev
stdDev(prices, period) ==
  IF mean(prices, period) = <<>> THEN <<>>
  ELSE <<Sqrt(Fl(SumSqDev(prices, mean(prices, period)[1]), Len(prices)))>>

\* get upperBand: mean + stdDevMultiplier * std
upperBand(prices, period) ==
  IF mean(prices, period) = <<>> \/ stdDev(prices, period) = <<>> THEN <<>>
  ELSE <<FlS(mean(prices, period)[1]
               + Fl(bollingerStdDevNum * stdDev(prices, period)[1], bollingerStdDevDen), 1)>>

\* get lowerBand: mean - stdDevMultiplier * std
lowerBand(prices, period) ==
  IF mean(prices, period) = <<>> \/ stdDev(prices, period) = <<>> THEN <<>>
  ELSE <<FlS(mean(prices, period)[1]
               - Fl(bollingerStdDevNum * stdDev(prices, period)[1], bollingerStdDevDen), 1)>>

\* prices of four significant bits: the multiples of 8 and of 12 up to the
\* third are numbers of the format, three times 14 is not
BandPrices == {8, 12, 14}

\* new BollingerBands(period, stdDevMultiplier); hist keeps the prices fed
InitBands ==
  /\ \E period \in 1..MaxPeriod :
       cfg = [toTokenMint |-> <<"A">>, proVersion |-> FALSE, maxBuys |-> 0,
              bollingerNoBuy |-> TRUE, bollingerPeriod |-> period]
  /\ state = EmptyState(<<"A">>)
  /\ disk = save(state)
  /\ corrupt = {}
  /\ notify = NotifyOff
  /\ pausedForNoFunds = FALSE
  /\ ticks = EmptyBag
  /\ timer = "interval"
  /\ chain = [paid |-> 0, unsettled |-> <<>>]
  /\ hist = [accrued |-> 0, nticks |-> 0, overlapped |-> FALSE, fromEmpty |-> FALSE,
             observed |-> <<>>]
  /\ bollinger = <<>>
  /\ ev = "boot"

\* addPrice(price)
Observe ==
  /\ Len(hist.observed) < MaxObservations
  /\ \E price \in BandPrices :
       /\ bollinger' = addPriceOf(bollinger, price, cfg.bollingerPeriod)
       /\ hist' = [hist EXCEPT !.observed = Append(@, price)]
  /\ Did("observe")
  /\ UNCHANGED <<cfg, corrupt, notify, state, disk, pausedForNoFunds, ticks,
                 timer, chain>>

NextBands == Observe

SpecBands == InitBands /\ [][NextBands]_vars

\* ---------------------------------------- the manual-sale check on its own
\* One PRO-tier tick after the other, with the clock: chain.now counts half
\* seconds, chain.transfers holds the instants at which the tracked asset was
\* transferred out of the wallet, hist.lastTickTime is the bot's field and
\* hist.resetsFor lists, reset by reset, the transfer that was detected.
\* sig.blockTime: the instant in whole seconds
blockTime(t) == t \div 2

\* recentManualSalesDetected: the transfers with blockTime * 1000 > lastTickTime
Detected(transfers, lastTickTime) ==
  {t \in transfers : blockTime(t) * 2 > lastTickTime}

\* getSignaturesForAddress lists the newest first and the loop returns at the
\* first match
FirstDetected(transfers, lastTickTime) ==
  CHOOSE t \in Detected(transfers, lastTickTime) :
    \A u \in Detected(transfers, lastTickTime) : u <= t

InitManual ==
  /\ cfg = [toTokenMint |-> <<"A">>, proVersion |-> TRUE, maxBuys |-> 0,
            bollingerNoBuy |-> TRUE]
  /\ state = EmptyState(<<"A">>)
  /\ disk = save(state)
  /\ corrupt = {}
  /\ notify = NotifyOff
  /\ pausedForNoFunds = FALSE
  /\ ticks = EmptyBag
  /\ timer = "interval"
  /\ chain = [paid |-> 0, unsettled |-> <<>>, transfers |-> {}, now |-> 0]
  /\ hist = [accrued |-> 0, nticks |-> 0, overlapped |-> FALSE, fromEmpty |-> TRUE,
             lastTickTime |-> 0, resetsFor |-> <<>>]
  /\ bollinger = <<>>
  /\ ev = "boot"

\* time passes with every step
Clock == chain.now < MaxClock /\ chain' = [chain EXCEPT !.now = @ + 1]

ManualFrame == UNCHANGED <<cfg, bollinger, corrupt, notify, pausedForNoFunds, timer>>

\* the owner transfers the asset out of the wallet by hand
ManualTransfer ==
  /\ chain.now < MaxClock
  /\ chain.transfers = {}
  /\ chain' = [chain EXCEPT !.now = @ + 1, !.transfers = @ \cup {chain.now}]
  /\ Did("transfer")
  /\ ManualFrame
  /\ UNCHANGED <<state, disk, ticks, hist>>

\* the interval timer calls tick() once the last call has returned
ManualTickStart ==
  /\ InFlight = 0
  /\ Clock
  /\ ticks' = SetToBag({[IdleTick EXCEPT !.pc = "manual"]})
  /\ Did("tick")
  /\ ManualFrame
  /\ UNCHANGED <<state, disk, hist>>

\* if (await this.recentManualSalesDetected()) { buys = []; save() }
ManualCheck ==
  \E r \in BagToSet(ticks) :
  /\ r.pc = "manual"
  /\ Clock
  /\ IF Detected(chain.transfers, hist.lastTickTime) # {}
     THEN /\ state' = [state EXCEPT !.buys = ClearBuys(@)]
          /\ disk' = save(state')
          /\ hist' = [hist EXCEPT !.resetsFor =
                        Append(@, FirstDetected(chain.transfers, hist.lastTickTime))]
          /\ Did("manual_reset")
     ELSE /\ UNCHANGED <<state, disk, hist>>
          /\ Did("manual_none")
  /\ ticks' = SetToBag({[r EXCEPT !.pc = "onchain"]})
  /\ ManualFrame

\* a collaborator call of the rest of the tick rejects before any write:
\* the catch block, which leaves lastTickTime alone
ManualRestThrows ==
  \E r \in BagToSet(ticks) :
  /\ r.pc = "onchain"
  /\ Clock
  /\ ticks' = EmptyBag
  /\ Did("price_throw")
  /\ ManualFrame
  /\ UNCHANGED <<state, disk, hist>>

\* the underflow guard fires: buys = [], save(), lastTickTime = Date.now()
ManualRestUnderflow ==
  \E r \in BagToSet(ticks) :
  /\ r.pc = "onchain"
  /\ state.buys # <<>>
  /\ Clock
  /\ state' = [state EXCEPT !.buys = ClearBuys(@)]
  /\ disk' = save(state')
  /\ hist' = [hist EXCEPT !.lastTickTime = chain'.now]
  /\ ticks' = EmptyBag
  /\ Did("underflow_reset")
  /\ ManualFrame

\* the ladder is empty: execBuy records the first buy, tick saves and sets
\* lastTickTime = Date.now()
ManualRestBuy ==
  \E r \in BagToSet(ticks) :
  /\ r.pc = "onchain"
  /\ state.buys = <<>>
  /\ Clock
  /\ \E price \in Prices, out \in TokenOuts :
       state' = [state EXCEPT !.buys =
                   PushBuy(@, [price |-> price, lamports |-> initialBuyLamports,
                               tokensRaw |-> out])]
  /\ disk' = save(state')
  /\ hist' = [hist EXCEPT !.lastTickTime = chain'.now]
  /\ ticks' = EmptyBag
  /\ Did("buy_saved")
  /\ ManualFrame

\* the same buy, with logTrade throwing after buys.push: the catch block
ManualRestBuyLogThrows ==
  \E r \in BagToSet(ticks) :
  /\ r.pc = "onchain"
  /\ state.buys = <<>>
  /\ Clock
  /\ \E price \in Prices, out \in TokenOuts :
       state' = [state EXCEPT !.buys =
                   PushBuy(@, [price |-> price, lamports |-> initialBuyLamports,
                               tokensRaw |-> out])]
  /\ ticks' = EmptyBag
  /\ Did("buy_log_throw")
  /\ ManualFrame
  /\ UNCHANGED <<disk, hist>>

\* the ladder is not empty and the price is between the thresholds: the
\* tick ends with lastTickTime = Date.now()
ManualRestHold ==
  \E r \in BagToSet(ticks) :
  /\ r.pc = "onchain"
  /\ state.buys # <<>>
  /\ Clock
  /\ hist' = [hist EXCEPT !.lastTickTime = chain'.now]
  /\ ticks' = EmptyBag
  /\ Did("hold")
  /\ ManualFrame
  /\ UNCHANGED <<state, disk>>

NextManual ==
  \/ ManualTransfer \/ ManualTickStart \/ ManualCheck
  \/ ManualRestThrows \/ ManualRestUnderflow \/ ManualRestBuy
  \/ ManualRestBuyLogThrows \/ ManualRestHold

SpecManual == InitManual /\ [][NextManual]_vars

\* ------------------------------------------ NotificationService on its own
\* The service taken alone: send(kind, msg) is called with any kind, each
\* fetch it started fulfils or rejects in any order, and send returns once
\* Promise.allSettled has seen them all.
NotifyIdle ==
  UNCHANGED <<cfg, state, disk, pausedForNoFunds, ticks, timer, chain, hist,
              bollinger, corrupt>>

InitNotify ==
  /\ cfg = [toTokenMint |-> <<"A">>, proVersion |-> FALSE, maxBuys |-> 0,
            bollingerNoBuy |-> TRUE]
  /\ state = EmptyState(<<"A">>)
  /\ disk = save(state)
  /\ corrupt = {}
  /\ pausedForNoFunds = FALSE
  /\ ticks = EmptyBag
  /\ timer = "first"
  /\ chain = [paid |-> 0, unsettled |-> <<>>]
  /\ hist = [accrued |-> 0, nticks |-> 0, overlapped |-> FALSE, fromEmpty |-> TRUE]
  /\ bollinger = <<>>
  /\ \E c \in [consoleEvents : Optional(EventLists \ {<<"TICK">>, <<"All">>}),
                discordEvents : Optional(EventLists \ {<<"All">>}),
                telegramEvents : Optional(EventLists \ {<<"all">>}),
                discordWebhook : BOOLEAN,
                telegramBot : BOOLEAN, telegramChat : BOOLEAN] :
       notify = [NotifyOff EXCEPT !.cfg = c]
  /\ ev = "boot"

\* send(kind, msg) up to its await: console.log and the fetches pushed
NotifySend ==
  /\ ~notify.call.active
  /\ \E kind \in Kinds :
       LET to == Attempted(notify.cfg, kind)
       IN notify' = [notify EXCEPT
                       !.call = [active |-> TRUE, kind |-> kind,
                                 tasks |-> to \ {"console"},
                                 attempted |-> to, failed |-> {}],
                       !.deliveries = @ \cup {<<ch, kind>> : ch \in to}]
  /\ Did("send_start")
  /\ NotifyIdle

\* a rejection that ends send() at once and reaches its caller
NotifyFailFast ==
  /\ notify.call.active
  /\ \E ch \in notify.call.tasks :
       notify' = [notify EXCEPT !.call = NoCall]
  /\ Did("send_raised")
  /\ NotifyIdle

\* one of the fetches rejects (or throws): allSettled records it
NotifyRejected ==
  /\ notify.call.active
  /\ \E ch \in notify.call.tasks :
       notify' = [notify EXCEPT !.call.tasks = @ \ {ch},
                                !.call.failed = @ \cup {ch}]
  /\ Did("delivery_failed")
  /\ NotifyIdle

\* one of the fetches fulfils
NotifyFulfilled ==
  /\ notify.call.active
  /\ \E ch \in notify.call.tasks :
       notify' = [notify EXCEPT !.call.tasks = @ \ {ch}]
  /\ Did("delivered")
  /\ NotifyIdle

\* await Promise.allSettled(tasks) resumes: send returns
NotifyReturn ==
  /\ notify.call.active
  /\ notify.call.tasks = {}
  /\ notify' = [notify EXCEPT !.call.active = FALSE]
  /\ Did("send_returned")
  /\ NotifyIdle

NextNotify == NotifySend \/ NotifyRejected \/ NotifyFulfilled \/ NotifyReturn

SpecNotify == InitNotify /\ [][NextNotify]_vars

\* the ways load() ends
LoadEvents == {"load_none", "load_renamed", "load_ok"}

\* a process start: the ledger is what load() and init() make of the file
StartEvents == {"restart", "token_switch"}

\* C1: at most one execution of tick() is in flight at any time.
C1_OneTickInFlight == InFlight <= 1

\* the events in which a submitted buy or sell fails to settle: the quote or
\* the swap call throws, or confirm() returns false
FailedAttempts ==
  {"buy_throw", "buy_unconfirmed", "buy_paused", "sell_quote_throw", "sell_fail"}

\* C2 as stated: whenever a buy or sell attempt fails to settle, the tick
\* aborts through its catch block with the ledger unchanged in memory and on
\* disk, and buys grows only by a confirmed buy.
C2_FailedAttemptAborts ==
  [][/\ ev' \in FailedAttempts =>
          ev' \in CaughtEvents /\ UNCHANGED <<state, disk>>
     /\ (ev' \notin StartEvents /\ Len(state'.buys) > Len(state.buys)) =>
          ev' = "buy_confirmed"]_vars

\* C2 amended: a failed attempt other than an insufficient-lamports swap
\* failure aborts the tick through its catch block with the ledger unchanged
\* in memory and on disk; an insufficient-lamports swap failure does not abort
\* the tick: the pause flag is set, the in-memory ledger is unchanged and is
\* what the tick saves; buys grows only by a confirmed buy.
C2_FailedAttemptLeavesLedger ==
  [][/\ ev' \in FailedAttempts \ {"buy_paused"} =>
          /\ ev' \in CaughtEvents
          /\ UNCHANGED <<state, disk, pausedForNoFunds>>
          /\ InFlight' = InFlight - 1
     /\ ev' = "buy_paused" =>
          /\ UNCHANGED state
          /\ disk' = save(state)
          /\ pausedForNoFunds'
     /\ (ev' \notin StartEvents /\ Len(state'.buys) > Len(state.buys)) =>
          ev' = "buy_confirmed"]_vars

\* a rung buy has failed on insufficient lamports: paused, ladder as it was
C2_Witness ==
  /\ ev = "buy_paused"
  /\ pausedForNoFunds
  /\ state.buys # <<>>
  /\ disk = save(state)

\* C3: every confirmed buy appends exactly one BuyEntry and every confirmed
\* sell clears buys and appends exactly one SellStat in the segment that sees
\* the confirmation, whatever later call of the tick throws.
C3_ConfirmedIsRecorded ==
  [][/\ ev' = "buy_confirmed" => Len(state'.buys) = Len(state.buys) + 1
     /\ ev' \in {"sell_done", "sell_log_throw"} =>
          /\ state'.buys = <<>>
          /\ Len(state'.sells) = Len(state.sells) + 1]_vars

\* C4: whenever no tick is in flight, the persisted snapshot equals the
\* in-memory state.
C4_SnapshotCurrentWhenIdle == InFlight = 0 => disk = save(state)

\* C5: a crash followed by a restart with the same mint loads the ledger the
\* process had in memory when it died.
C5_RestartResumesLedger ==
  [][ev' = "restart" => Ledger(state') = Ledger(state)]_vars

\* C6: within a run buys stays the same, grows by exactly one entry appended
\* at the end, or becomes empty, and it becomes empty only by a completed
\* sell, the token switch of init(), the manual-transfer reset or an on-chain
\* underflow (seen by detectUnderflowAndReset or by execSellAll); a process
\* start with the same mint takes buys from the file.
C6_BuysShape ==
  [][\/ state'.buys = state.buys
     \/ /\ Len(state'.buys) = Len(state.buys) + 1
        /\ SubSeq(state'.buys, 1, Len(state.buys)) = state.buys
        /\ ev' = "buy_confirmed"
     \/ /\ state'.buys = <<>>
        /\ ev' \in {"sell_done", "token_switch", "manual_reset",
                    "underflow_reset", "sell_underflow"}
     \/ ev' = "restart"]_vars

C8_FailedPayoutKeptAndSaved ==
  [][ev' \in {"tip_send_throw", "tip_confirm_throw", "tip_failed", "tip_timeout"} =>
       /\ Tip(state') = Tip(state)
       /\ disk'[1].pendingTipLamports = BigStr(Tip(state))]_vars

\* C9: as long as no two ticks have overlapped, the total transferred to the
\* creator address never exceeds the total accrued into pendingTipLamports,
\* transfers that settle after their polling timed out included.
C9_NeverPaidTwice == ~hist.overlapped => chain.paid <= hist.accrued

\* C10: a tick that starts with the pause flag set, and decides while it is
\* still set and no sell has completed, attempts no buy: neither a first buy
\* nor a rung buy.
C10_NoBuyWhilePaused ==
  [][ev' \in {"first_buy", "rung_buy"} =>
       ~ \E r \in BagToSet(ticks) :
           /\ r.pc \in {"price", "preview"}
           /\ CopiesIn(r, ticks') < CopiesIn(r, ticks)
           /\ r.pausedAtStart
           /\ pausedForNoFunds
           /\ state.sells = <<>>]_vars

\* the steps that end a tick whose sell has completed
SoldTickEnds ==
  {"tip_send_throw", "tip_confirm_throw", "tip_failed", "tip_timeout", "tip_paid"}

\* C11: in a run with no overlapping ticks, the tick of every completed sell
\* ends with the pause flag cleared, whatever the tip accrual and the tip
\* payout did.
C11_SellClearsPause ==
  [][(/\ ~hist.overlapped
      /\ \/ ev' \in SoldTickEnds
         \/ ev' = "sell_done" /\ InFlight' < InFlight)
       => ~pausedForNoFunds']_vars

\* C12: every buy attempt that fails for lack of balance, at the verbose
\* mode pre-check or at the swap, sets the pause flag, leaves the ledger
\* unchanged and does not end the tick in its catch block.
C12_InsufficientFundsPauses ==
  [][ev' \in {"buy_balance_short", "buy_paused"} =>
       /\ pausedForNoFunds'
       /\ Ledger(state') = Ledger(state)
       /\ ev' \notin CaughtEvents]_vars

\* the tick r takes the step from s to s'
Acts(r) == CopiesIn(r, ticks') < CopiesIn(r, ticks)

\* C13: a tick that found price >= sellAbove on a non-empty ladder chooses
\* sell-all: it neither holds nor makes a rung buy, also when the price is
\* at or below buyBelow as well.
C13_SellBeforeBuy ==
  [][ev' \in {"hold_paused", "hold_cap", "hold", "rung_buy"} =>
       ~ \E r \in BagToSet(ticks) :
           /\ r.pc = "preview"
           /\ r.sellHit
           /\ Acts(r)]_vars

\* C14: a tick makes a rung buy only on a non-empty ladder, with the price
\* at or below lastBuyPrice * (1 - nextDropPct(buys.length) / 100), the
\* pause flag clear and buys.length under the cap (or no cap); the amount it
\* spends is nextSize(buys.length), and that amount is what a confirmed buy
\* records.
C14_RungBuyGuard ==
  [][/\ ev' = "rung_buy" =>
          \A r \in BagToSet(ticks) :
            (r.pc = "preview" /\ Acts(r)) =>
              /\ state.buys # <<>>
              /\ BuyHit(r.price, state.buys)
              /\ ~pausedForNoFunds
              /\ cfg.maxBuys = 0 \/ Len(state.buys) < cfg.maxBuys
              /\ r.lamports = nextSize(Len(state.buys))
     /\ ev' = "buy_confirmed" =>
          \E r \in BagToSet(ticks) :
            /\ r.pc = "buy_swap" /\ Acts(r)
            /\ state'.buys[Len(state'.buys)].lamports = r.lamports]_vars

\* C15: with the no-buy zone enabled and the indicator window full, no buy
\* is started by a tick whose price is above upperBand(); and every tick
\* that has fetched its price has fed it into the indicator before it decides.
C15_NoBuyAboveUpperBand ==
  [][/\ ev' \in {"first_buy", "thresholds"} =>
          \E r \in BagToSet(ticks') :
            /\ CopiesIn(r, ticks') > CopiesIn(r, ticks)
            /\ bollinger' = addPrice(bollinger, r.price)
     /\ ev' \in {"first_buy", "rung_buy"} =>
          \A r \in BagToSet(ticks') :
            (/\ CopiesIn(r, ticks') > CopiesIn(r, ticks)
             /\ cfg.bollingerNoBuy
             /\ BandAvailable(bollinger'))
              => ~AboveUpperBand(r.price, bollinger')]_vars

\* C16: with maxBuys > 0, in every state of a run that started from an empty
\* ledger the ladder holds at most maxBuys entries, overlapping ticks
\* included; and once it holds maxBuys entries no tick records another buy.
C16_LadderWithinCap ==
  /\ []((cfg.maxBuys # 0 /\ hist.fromEmpty) => Len(state.buys) <= cfg.maxBuys)
  /\ [][(cfg.maxBuys # 0 /\ hist.fromEmpty /\ Len(state.buys) >= cfg.maxBuys)
          => ev' # "buy_confirmed"]_vars

\* the positions of a tick inside execBuy
BuyPcs == {"buy_balance", "buy_swap", "buy_log"}

\* the record r2 is a tick's new position after this step
Arrives(r2) == CopiesIn(r2, ticks') > CopiesIn(r2, ticks)

\* C17: a tick that has its price and finds the ladder empty starts a buy of
\* exactly initialBuyLamports, whatever the price, and trades nothing in
\* that step; a tick inside execBuy goes on inside execBuy or ends, so it
\* takes no other trade action.
C17_FirstBuyOnEmpty ==
  [][\A r \in BagToSet(ticks) :
       (Acts(r) /\ ev' \notin StartEvents) =>
         /\ (r.pc = "price" /\ state.buys = <<>> /\ ev' # "price_throw") =>
              /\ ev' = "first_buy"
              /\ \E price \in Prices :
                   Arrives([r EXCEPT !.pc = BuyPc, !.price = price,
                                     !.lamports = initialBuyLamports])
              /\ state' = state
         /\ r.pc \in BuyPcs =>
              \A r2 \in BagToSet(ticks') :
                Arrives(r2) => r2.pc \in {"buy_swap", "buy_log"}]_vars

\* a first buy has started on an empty ladder at the highest price
C17_Witness ==
  /\ ev = "first_buy"
  /\ state.buys = <<>>
  /\ \E r \in BagToSet(ticks) :
       r.pc = BuyPc /\ r.price = 110 /\ r.lamports = initialBuyLamports

\* the tracked-asset id written in dca_state.json (empty when there is none)
PersistedMint == IF disk = <<>> THEN <<>> ELSE disk[1].tokenMint

\* C18: at a process start, if the persisted id is non-empty and differs from
\* the configured one, then after init() the ledger is empty, the tip is 0
\* and the id is the configured one, in memory and in the snapshot;
\* otherwise init() leaves buys, sells and the tip as the constructor loaded
\* them.
C18_TokenSwitchResets ==
  [][ev' \in StartEvents =>
       /\ (PersistedMint # <<>> /\ PersistedMint # cfg'.toTokenMint) =>
            /\ state' = EmptyState(cfg'.toTokenMint)
            /\ disk' = save(state')
       /\ (PersistedMint = <<>> \/ PersistedMint = cfg'.toTokenMint) =>
            Ledger(state') = Ledger(load(disk))]_vars

\* a start with another mint has reset a ledger that came from the file
C18_Witness ==
  /\ ev = "token_switch"
  /\ ~hist.fromEmpty
  /\ hist.nticks = 2
  /\ state = EmptyState(<<"B", "n">>)
  /\ disk = save(state)

\* C19: a tick whose underflow guard fires clears buys, saves, leaves sells
\* and the tip as they were and ends without a buy or a sell; a tick whose
\* guard does not fire goes on to its price with the ledger and the
\* snapshot untouched.
C19_UnderflowGuard ==
  [][\A r \in BagToSet(ticks) :
       (r.pc = "onchain" /\ Acts(r)
          /\ ev' \notin StartEvents \cup {"onchain_throw"}) =>
         \/ /\ ev' = "underflow_reset"
            /\ \E onChainRaw \in OnChainVals : Underflow(onChainRaw, state.buys)
            /\ state' = [state EXCEPT !.buys = <<>>]
            /\ disk' = save(state')
            /\ ticks' = ticks (-) SetToBag({r})
         \/ /\ ev' = "underflow_none"
            /\ \E onChainRaw \in OnChainVals : ~Underflow(onChainRaw, state.buys)
            /\ state' = state
            /\ disk' = disk
            /\ Arrives([r EXCEPT !.pc = "price"])]_vars

\* the guard has fired on a ledger that holds a sell and a pending tip
C19_Witness ==
  /\ ev = "underflow_reset"
  /\ state.buys = <<>>
  /\ state.sells # <<>>
  /\ Tip(state) > 0
  /\ disk = save(state)

\* the steps of a sell evaluation that ends in a skip
SkipSteps == {"sell_start", "sell_balance_ok", "sell_skipped"}

\* C20: a sell whose worst-case proceeds are below the cost basis times
\* (1 + sellProfitPct/100 + priceImpactPct/100) submits no swap: the tick
\* ends at the check, and its sell evaluation leaves buys, sells, the tip and
\* the pause flag as they were; nothing but the snapshot records the skip,
\* so the next tick evaluates the sell anew.
C20_SkippedSellChangesNothing ==
  [][/\ ev' \in SkipSteps =>
          /\ state' = state
          /\ pausedForNoFunds' = pausedForNoFunds
          /\ cfg' = cfg /\ chain' = chain /\ hist' = hist
     /\ ev' = "sell_skipped" =>
          \E r \in BagToSet(ticks) :
            /\ r.pc = "sell_quote"
            /\ ticks' = ticks (-) SetToBag({r})
            /\ \E pct \in SellOutPcts, impact \in PriceImpacts :
                 ((QuoteOut(pct) * 99) \div 100) * 1000
                   < CostLamports * (1000 + sellProfitPerMille + impact)
     /\ ev' = "sell_submit" =>
          \E pct \in SellOutPcts, impact \in PriceImpacts :
            ((QuoteOut(pct) * 99) \div 100) * 1000
              >= CostLamports * (1000 + sellProfitPerMille + impact)]_vars

\* a sell has been skipped while the bot was paused on a non-empty ladder
C20_Witness ==
  /\ ev = "sell_skipped"
  /\ pausedForNoFunds
  /\ state.buys # <<>>
  /\ disk = save(state)

\* C21: load() on an absent or empty file leaves the initial empty ledger and
\* touches no file; on a snapshot it cannot load it renames the file, which
\* is kept under its new name, and every field holds its initial value,
\* none taken from the rejected snapshot.
C21_RejectedSnapshotStartsFresh ==
  [][ev' \in LoadEvents =>
       /\ disk = <<>> =>
            state' = EmptyState(<<>>) /\ disk' = disk /\ corrupt' = corrupt
       /\ LoadThrows(disk) =>
            /\ disk' = <<>> /\ disk \in corrupt'
            /\ state' = EmptyState(<<>>)]_vars

\* C22: save() followed by load() gives back the saved state exactly,
\* whatever the mint string, the buys, the sells and the tip: only the
\* fields written as tagged big integers are decoded as big integers, and a
\* mint whose last character is "n" comes back as the same string.
C22_SaveLoadIdentity ==
  [][(ev = "save" /\ ev' \in LoadEvents) => state' = state]_vars

\* C23: over any sequence of send() calls, a configured channel whose filter
\* is {BUY, SELL} gets a delivery attempt for exactly the events of kind BUY
\* or SELL, and a channel whose endpoint is not configured never gets one,
\* whatever its filter.
C23_FilteredDelivery ==
  /\ [][ev' = "send_start" =>
          \A ch \in Channels :
            /\ (filters(notify.cfg)[ch] = {"BUY", "SELL"} /\ Configured(notify.cfg, ch)) =>
                 (ch \in notify'.call.attempted <=> notify'.call.kind \in {"BUY", "SELL"})
            /\ ~Configured(notify.cfg, ch) => ch \notin notify'.call.attempted]_vars
  /\ [](\A d \in notify.deliveries :
          /\ Configured(notify.cfg, d[1])
          /\ filters(notify.cfg)[d[1]] = {"BUY", "SELL"} => d[2] \in {"BUY", "SELL"})

\* every kind has been sent: telegram, filtered on {BUY, SELL}, got those two
\* and discord, with filter ALL and no webhook, got none
C23_Witness ==
  /\ filters(notify.cfg).telegram = {"BUY", "SELL"}
  /\ "ALL" \in filters(notify.cfg).discord
  /\ ~notify.cfg.discordWebhook
  /\ {d \in notify.deliveries : d[1] # "console"}
       = {<<"telegram", "BUY">>, <<"telegram", "SELL">>}
  /\ {<<"console", k>> : k \in Kinds} \subseteq notify.deliveries

\* C24: send() never raises to its caller: it returns once every delivery it
\* started has settled, whichever of them failed; the deliveries it attempts
\* are fixed by the kind and the configuration before any of them settles,
\* and no step of it touches the ledger, the pause flag or a tick.
C24_SendNeverRaises ==
  [][/\ ev' # "send_raised"
     /\ ev' \in {"send_start", "delivered", "delivery_failed", "send_returned"} =>
          /\ state' = state /\ disk' = disk
          /\ pausedForNoFunds' = pausedForNoFunds /\ ticks' = ticks
     /\ ev' \in {"delivered", "delivery_failed"} =>
          /\ notify'.call.active
          /\ notify'.call.attempted = Attempted(notify.cfg, notify.call.kind)
          /\ notify'.deliveries = notify.deliveries
     /\ ev' = "send_returned" => notify.call.tasks = {}]_vars

\* send() has returned after both of its deliveries failed
C24_Witness ==
  /\ ev = "send_returned"
  /\ ~notify.call.active
  /\ notify.call.attempted = Channels
  /\ notify.call.failed = {"discord", "telegram"}

\* C25: a collaborator call that fails at any step ends the tick in its catch
\* block and leaves the timer armed; and the next tick, called when no other
\* is in flight, starts from a ledger equal to the persisted snapshot.
C25_NextTickFromSnapshot ==
  [][/\ ev' \in CaughtEvents => (InFlight' < InFlight /\ timer' = "interval")
     /\ (ev' = "tick" /\ InFlight = 0) => disk = save(state)]_vars

RECURSIVE CostUpTo(_, _)
CostUpTo(buys, n) ==
  IF n = 0 THEN 0 ELSE CostUpTo(buys, n - 1) + buys[n].price * buys[n].tokensRaw

RECURSIVE AmountUpTo(_, _)
AmountUpTo(buys, n) ==
  IF n = 0 THEN 0 ELSE AmountUpTo(buys, n - 1) + buys[n].tokensRaw

\* C27: the average cost of a non-empty ladder is sum(price_i * amount_i) /
\* sum(amount_i); the sell condition a tick computes is price >= average *
\* (1 + sellProfitPct/100), and a tick that reaches the branch starts a sell
\* exactly when that condition holds and the buy branch is not taken.
C27_SellAtWeightedAverage ==
  [][/\ ev' = "thresholds" =>
          \A r2 \in BagToSet(ticks') :
            Arrives(r2) =>
              (r2.sellHit <=>
                 r2.price * AmountUpTo(state.buys, Len(state.buys)) * 1000
                   >= CostUpTo(state.buys, Len(state.buys)) * (1000 + sellProfitPerMille))
     /\ \A r \in BagToSet(ticks) :
          (r.pc = "preview" /\ Acts(r)
             /\ ev' \notin StartEvents \cup {"preview_throw"}) =>
            (ev' = "sell_start" <=> (r.sellHit /\ ~r.buyHit))]_vars

\* a sell has started on a ladder whose two entries differ in price and size
C27_Witness ==
  /\ ev = "sell_start"
  /\ Len(state.buys) = 2
  /\ state.buys[1].price # state.buys[2].price
  /\ state.buys[1].tokensRaw # state.buys[2].tokensRaw

\* Scenario B: two buys at 1.00 and 0.90 of equal quantity, sellProfitPct 5
ScenarioB ==
  /\ Len(state.buys) = 2
  /\ state.buys[1].price = 10000 /\ state.buys[2].price = 9000
  /\ state.buys[1].tokensRaw = state.buys[2].tokensRaw
  /\ cfg.sellProfitPerMille = 50

\* the price of the tick that has just decided
DecidedAt(price) == \E r \in BagToSet(ticks') : r.price = price

\* C28: in scenario B the average cost is 0.95 and the sell trigger 0.9975; a
\* tick at price 0.998 does not start a sell and a tick at price 1.00 does.
C28_ScenarioB ==
  [][ScenarioB =>
       /\ CostUpTo(state.buys, 2) = 9500 * AmountUpTo(state.buys, 2)
       /\ DecidedAt(9980) => ev' # "sell_start"
       /\ DecidedAt(10000) => ev' = "sell_start"]_vars

\* C28 as the code has it: in scenario B the average cost is 0.95 and the
\* sell trigger 0.9975; a tick at price 0.998 starts a sell, as 0.998 >=
\* 0.9975, and so does a tick at price 1.00; a tick at price 0.997 does not.
C28_ScenarioBSells ==
  [][ScenarioB =>
       /\ CostUpTo(state.buys, 2) = 9500 * AmountUpTo(state.buys, 2)
       /\ DecidedAt(9970) => ev' = "hold"
       /\ DecidedAt(9980) => ev' = "sell_start"
       /\ DecidedAt(10000) => ev' = "sell_start"]_vars

\* a tick at price 0.998 has started a sell in scenario B
C28_Witness ==
  /\ ScenarioB
  /\ ev = "sell_start"
  /\ \E r \in BagToSet(ticks) : r.price = 9980 /\ r.sellHit /\ ~r.buyHit

\* C29: the underflow guard fires exactly when 10 * B < 9 * R, for the raw
\* balance B (0 when the account is not found) and the recorded total R, and
\* never on an empty ladder.
C29_GuardAtNinetyPercent ==
  \A r \in BagToSet(ticks) :
    ev \in {"underflow_reset", "underflow_none"} =>
      /\ ev = "underflow_reset" <=> 10 * r.onChainRaw < 9 * r.expectedRaw
      /\ r.expectedRaw = 0 => ev = "underflow_none"

\* the steps in which a call of tick() begins
TickBegins == {"tick"} \cup StartEvents

\* a reported transfer clears buys, is persisted, and leaves the rest alone
ManualResetClearsBuys ==
  ev' = "manual_reset" =>
    /\ state'.buys = <<>>
    /\ state'.sells = state.sells
    /\ state'.pendingTipLamports = state.pendingTipLamports
    /\ state'.tokenMint = state.tokenMint
    /\ disk' = save(state')

\* C30: a reported transfer of the tracked asset out of the wallet makes the
\* tick clear buys and persist, with sells and the pending tip unchanged, and
\* every tick in every mode begins with this detection.
C30_ManualSaleEveryMode ==
  [][/\ ManualResetClearsBuys
     /\ ev' \in TickBegins =>
          \A r2 \in BagToSet(ticks') : Arrives(r2) => r2.pc = "manual"]_vars

\* C30 as the code has it: the detection begins every tick of the PRO tier
\* and no tick of the free tier, which goes straight to the underflow guard
\* and never resets for a reported transfer.
C30_ManualSaleProOnly ==
  [][/\ ManualResetClearsBuys
     /\ ev' = "manual_reset" => cfg.proVersion
     /\ ev' \in TickBegins =>
          \A r2 \in BagToSet(ticks') :
            Arrives(r2) =>
              r2.pc = (IF cfg'.proVersion THEN "manual" ELSE "onchain")]_vars

\* a reported transfer has emptied the ladder of a ledger that holds a sell
\* and a pending tip
C30_Witness ==
  /\ ev = "manual_reset"
  /\ cfg.proVersion
  /\ state.buys = <<>>
  /\ state.sells # <<>>
  /\ state.pendingTipLamports > 0
  /\ disk = save(state)

\* the step sends a payout transfer
PayoutAttempted == \E r2 \in BagToSet(ticks') : r2.pc = "tip" /\ Arrives(r2)

\* C31: a completed sell adds floor(profit / 100) to the pending tip when
\* that is positive and nothing otherwise, and a payout is attempted in the
\* tick exactly when the pending tip is then worth the threshold or more.
C31_TipAccrualAndFlush ==
  [][\A r \in BagToSet(ticks) :
       (r.pc = "sell_swap" /\ Acts(r) /\ ev' = "sell_done") =>
         /\ Tip(state') - Tip(state)
              = (IF r.diff >= TipPctDivisor THEN r.diff \div TipPctDivisor ELSE 0)
         /\ PayoutAttempted <=> TipDue(Tip(state'), r.solUsd)]_vars

\* C32: on every completed sell after which the pending tip is worth the
\* threshold or more, a payout transfer is attempted in that tick, whatever
\* the profit of that sell.
C32_PendingTipRetried ==
  [][\A r \in BagToSet(ticks) :
       (r.pc = "sell_swap" /\ Acts(r) /\ ev' = "sell_done"
          /\ TipDue(Tip(state'), r.solUsd)) => PayoutAttempted]_vars

\* C33: confirm returns true only on a status without error at the
\* confirmed or finalized level; a status with an error makes it return
\* false in the same step; no status or a lower level begins a pause, after
\* which it polls again or, the deadline having passed, returns false.
C33_ConfirmOutcome ==
  /\ [](TheCall.result = "true" => TheCall.last \in {"confirmed", "finalized"})
  /\ [][ev' = "status" =>
          LET c == CHOOSE c \in BagToSet(ticks') : TRUE
          IN /\ c.last = "err" => (c.pc = "returned" /\ c.result = "false")
             /\ c.last \in {"none", "processed"} => c.pc = "sleep"]_vars
  /\ [][ev' = "wake" =>
          LET c == CHOOSE c \in BagToSet(ticks') : TRUE
          IN IF c.now < c.deadline
             THEN c.pc = "query" /\ c.polls = TheCall.polls
             ELSE c.pc = "returned" /\ c.result = "false"]_vars

\* confirm has returned true on a finalized status seen at its third poll
C33_Witness ==
  /\ TheCall.result = "true"
  /\ TheCall.last = "finalized"
  /\ TheCall.polls = 3

\* a call of confirm is under way
Polling == TheCall.pc \in {"query", "sleep"}

\* C34: a call of confirm makes at most 90 / 2 = 45 polls and, every query
\* being answered, returns.
C34_ConfirmTerminates ==
  /\ [](TheCall.polls <= ConfirmDeadline \div PollInterval)
  /\ Polling ~> ~Polling

\* confirm has returned false at the deadline after 45 polls
C34_Witness ==
  /\ TheCall.pc = "returned"
  /\ TheCall.result = "false"
  /\ TheCall.polls = ConfirmDeadline \div PollInterval
  /\ TheCall.last \in {"none", "processed"}

\* the catch block has reported the benign error as one TICK event
ReportedAsTick ==
  /\ ev' = "caught_benign"
  /\ notify'.call.kind = "TICK"
  /\ notify'.call.attempted = {"console"}

\* C35: a tick in which a collaborator call fails with the benign 0x1771
\* error ends, reports one TICK event, and leaves the ledger in memory and on
\* disk as they were at the start of the tick.
C35_BenignErrorKeepsTickStart ==
  [][benign0x1771(hist'.caught) /\ ev' \in {"caught_benign", "caught_logged"} =>
       /\ ReportedAsTick
       /\ ticks' = EmptyBag
       /\ state' = hist.start
       /\ disk' = hist.startDisk]_vars

\* C35 as the code has it: the tick ends at the failing call, reports one
\* TICK event in place of the error log, and the catch block leaves the
\* ledger in memory and on disk as they were when the call failed; any other
\* error is logged with no event and changes nothing either.
C35_BenignErrorChangesNothing ==
  [][ev' \in {"caught_benign", "caught_logged"} =>
       /\ benign0x1771(hist'.caught) => ReportedAsTick
       /\ ~benign0x1771(hist'.caught) =>
            (ev' = "caught_logged" /\ notify'.call = NoCall)
       /\ ticks' = EmptyBag
       /\ state' = state
       /\ disk' = disk]_vars

\* the benign error was caught at the tip transfer, after the sell had been
\* recorded in memory: the file still holds the ledger of the tick's start
C35_Witness ==
  /\ ev = "caught_benign"
  /\ benign0x1771(hist.caught)
  /\ notify.call.kind = "TICK"
  /\ state # hist.start
  /\ disk = hist.startDisk
  /\ disk # save(state)

\* the setting is missing or holds no word
Unset(v) == v = <<>> \/ v[1] = <<>>

\* the setting names ALL in some letter case
NamesAll(v) ==
  v # <<>> /\ \E i \in DOMAIN v[1] : v[1][i] \in {"ALL", "all", "All"}

\* the setting of a channel
Setting(c, ch) ==
  CASE ch = "console" -> c.consoleEvents
    [] ch = "discord" -> c.discordEvents
    [] ch = "telegram" -> c.telegramEvents

WindowAndAvailability ==
  LET n == Len(hist.observed)
      p == cfg.bollingerPeriod
      kept == IF n < p THEN n ELSE p
  IN /\ bollinger = SubSeq(hist.observed, n - kept + 1, n)
     /\ Len(bollinger) <= p
     /\ mean(bollinger, p) = <<>> <=> n < p
     /\ stdDev(bollinger, p) = <<>> <=> n < p
     /\ upperBand(bollinger, p) = <<>> <=> n < p
     /\ lowerBand(bollinger, p) = <<>> <=> n < p

\* the window is full of the one price x
FullOf(x) ==
  /\ Len(bollinger) = cfg.bollingerPeriod
  /\ \A i \in DOMAIN bollinger : bollinger[i] = x

\* the spread is 0 and the mean and both bands are x
FlatAt(x) ==
  /\ mean(bollinger, cfg.bollingerPeriod) = <<x>>
  /\ stdDev(bollinger, cfg.bollingerPeriod) = <<0>>
  /\ upperBand(bollinger, cfg.bollingerPeriod) = <<x>>
  /\ lowerBand(bollinger, cfg.bollingerPeriod) = <<x>>

\* C37: the window holds the last min(n, p) prices, the getters are null
\* exactly while n < p, and on a window of p identical prices x the spread
\* is 0 and mean = upperBand = lowerBand = x.
C37_WindowAndFlatBands ==
  /\ WindowAndAvailability
  /\ \A x \in BandPrices : FullOf(x) => FlatAt(x)

\* C37 as the code has it: the same, the last part for every x whose
\* multiples x, 2x, ..., p*x the number format holds without rounding; for
\* another x the mean the code computes can miss x.
C37_WindowAndFlatBandsExact ==
  /\ WindowAndAvailability
  /\ \A x \in BandPrices :
       (FullOf(x) /\ \A k \in 1..cfg.bollingerPeriod : Representable(k * x))
         => FlatAt(x)

\* four prices were fed to a window of three, which evicted the first and
\* holds three equal prices whose sums need no rounding
C37_Witness ==
  /\ cfg.bollingerPeriod = 3
  /\ hist.observed = <<14, 12, 12, 12>>
  /\ bollinger = <<12, 12, 12>>
  /\ FlatAt(12)

\* sells has grown by one entry at its end
AppendedOne ==
  /\ Len(state'.sells) = Len(state.sells) + 1
  /\ SubSeq(state'.sells, 1, Len(state.sells)) = state.sells

\* C38: while the bot runs, a completed sell appends one entry to sells and
\* no other step of a tick changes sells, the resets of buys included; at a
\* process start init() empties the sells it was handed on a token switch
\* and on nothing else.
C38_SellsAppendOnly ==
  [][/\ ev' = "sell_done" => AppendedOne
     /\ ev' \notin StartEvents \cup {"sell_done"} => state'.sells = state.sells
     /\ ev' = "token_switch" => state'.sells = <<>>
     /\ ev' = "restart" => state'.sells = load(disk).sells]_vars

\* a second sell has been appended behind the first
C38_Witness ==
  /\ ev = "sell_done"
  /\ Len(state.sells) = 2
  /\ state.buys = <<>>

\* C39: a transfer out of the wallet is the cause of at most one reset, so
\* no reset wipes a buy recorded after the reset the same transfer caused
\* before, the detecting tick having ended in the catch block included.
C39_OneResetPerTransfer ==
  \A i, j \in DOMAIN hist.resetsFor :
    i # j => hist.resetsFor[i] # hist.resetsFor[j]

\* every recorded price is below the one recorded before it
Descending(buys) == \A i \in 1 .. Len(buys) - 1 : buys[i + 1].price < buys[i].price

\* C40: with BUY_DROP_PCT > 0, DCA_PCT_MULT > 0 and SELL_PROFIT_PCT >= 0, on
\* a ladder built from an empty ledger by ticks in sequence with positive
\* token amounts the recorded buy prices strictly decrease in ladder order,
\* the average cost is at least the last buy price, no price is at once at
\* or below buyBelow and at or above sellAbove, and no tick finds both
\* conditions true.
C40_TriggersDisjoint ==
  /\ Descending(state.buys)
  /\ state.buys # <<>> =>
       /\ SumCost(state.buys) >= state.buys[Len(state.buys)].price * SumTokens(state.buys)
       /\ \A price \in 1 .. 110 : ~(TriggerBuyHit(price) /\ TriggerSellHit(price))
  /\ ~(hist.buyHit /\ hist.sellHit)

\* a tick has just met its buy condition on a ladder of three rungs and
\* made the fourth, under a zero profit target
C40_Witness ==
  /\ ev = "rung_buy"
  /\ hist.buyHit
  /\ Len(state.buys) = 4
  /\ cfg.sellProfitPerMille = 0

====
